---------------------------- MODULE Spec2Model ----------------------------
(***************************************************************************)
(* Device simulator: frame codec (protocol.h), RX ring buffer with frame   *)
(* extractor and TX frame queue (io_buffer.c).                             *)
(*                                                                         *)
(* Bytes are the integers 0..255.  C arrays are 0-based; the sequences     *)
(* below are 1-based, so inBuf[k] in the source is inBuf[k+1] here.        *)
(* uint16_t arithmetic is taken modulo U16 wherever the source stores an   *)
(* int expression into a uint16_t.                                         *)
(***************************************************************************)
EXTENDS Integers, Sequences, FiniteSets, TLC

VARIABLES
    codec,      \* the codec harness: inputs, buildFrame result, wire bytes, parseFrame result
    rx,         \* RxBuffer_t: [buf, head, tail]
    stream,     \* the bytes the peer sends, as a sequence of items (byte sequences)
    pos,        \* how many bytes of the stream the transport has handed over
    pc,         \* position of the receive path: "idle" or "drain" (inside tryParseFramesFromRx)
    delivered,  \* the frames handed to the onFrame callback, in call order
    last,       \* out-parameters and locals of the latest tryExtractOneFrame call
    fed,        \* the latest feedRxBuffer call: len argument and return value
    tx,         \* TxBuffer_t: [buf, head, tail]
    txlog,      \* the latest TX queue call of the queue harness: arguments and results
    txq,        \* the frames enqueueTxFrame has accepted, oldest first, less those dequeued
    app,        \* g_app: mode, status, seq_counter, channels, trigger, timers
    now,        \* the clock value the run loop read last (ms)
    req,        \* the latest app_on_frame call: what parseFrame returned for the frame
    sent,       \* the frames the latest handler passed to enqueueTxFrame, with the results
    txout,      \* the frames the latest app_process_tx_buffer call passed to transport send
    drv,        \* the run loop: its position in the cycle, cycles done, process alive
    csrx,       \* chunk-stream transport, RX side of g_cs, with its producer and consumer
    cstx        \* chunk-stream transport, TX side of g_cs, with the sender and the TX thread

vars == <<codec, rx, stream, pos, pc, delivered, last, fed, tx, txlog, txq,
          app, now, req, sent, txout, drv, csrx, cstx>>
csVars == <<csrx, cstx>>
rxVars == <<rx, stream, pos, pc, delivered, last, fed>>
txVars == <<tx, txlog, txq>>
appVars == <<app, now, req, sent, txout, drv>>

----------------------------------------------------------------------------
(* Widths and protocol constants *)

U16 == 65536
FRAME_HEAD_0 == 170
FRAME_HEAD_1 == 85
FRAME_TAIL_0 == 85
FRAME_TAIL_1 == 170
MIN_FRAME_LEN == 8
TX_FRAME_BUF_SIZE == 8192

(* Model sizes.  The source has MAX_FRAME_SIZE = 8192 and RX_BUFFER_SIZE = *)
(* 65535; the model keeps their order (frame < ring < 2^16) at a size TLC  *)
(* can enumerate.                                                          *)
MAX_FRAME_SIZE == 16
RX_BUFFER_SIZE == 24
TX_BUFFER_SIZE == 48
MaxPayload == 2
MaxItems == 3
MaxChunk == 4
MaxDelivered == 4
MaxRawBody == 4
MaxTxOps == 5
SAMPLES_PER_PACKET == 1
MaxLoops == 2
MaxCmds == 3
MaxStreamLoops == 13
MaxLongLoops == 17

Min(a, b) == IF a <= b THEN a ELSE b

\* bitwise exclusive or, bit by bit
RECURSIVE BitXor(_, _)
BitXor(a, b) ==
    IF a = 0 THEN b
    ELSE IF b = 0 THEN a
    ELSE (((a % 2) + (b % 2)) % 2) + (2 * BitXor(a \div 2, b \div 2))

NibXor == [a \in 0..15 |-> [b \in 0..15 |-> BitXor(a, b)]]

\* the operator ^ on uint16_t values, four bits at a time
Xor(a, b) ==
    NibXor[a % 16][b % 16]
    + (16 * NibXor[(a \div 16) % 16][(b \div 16) % 16])
    + (256 * NibXor[(a \div 256) % 16][(b \div 256) % 16])
    + (4096 * NibXor[(a \div 4096) % 16][(b \div 4096) % 16])

RECURSIVE Pow2(_)
Pow2(k) == IF k = 0 THEN 1 ELSE 2 * Pow2(k - 1)

\* the concatenation of a sequence of byte sequences
\* Op applied to the value v: the value is computed once and named in Op
WithValue(v, Op(_)) == Op(v)

RECURSIVE Flat(_)
Flat(items) == IF items = <<>> THEN <<>> ELSE Head(items) \o Flat(Tail(items))

----------------------------------------------------------------------------
(* CRC16 (protocol.h 63-79) *)

\* the polynomial is never applied
CrcShift_NoPoly(crc) == crc \div 2

\* one pass of the inner loop body: shift right, xor the polynomial if bit 0 was set
CrcShift(crc) ==
    IF crc % 2 = 1 THEN Xor(crc \div 2, 40961) ELSE crc \div 2

\* j passes of the inner loop
RECURSIVE CrcByte(_, _)
CrcByte(crc, j) == IF j = 0 THEN crc ELSE CrcShift(CrcByte(crc, j - 1))

\* the outer loop from index i (0-based) to length, evaluated as the passes from
\* i to the middle followed by the passes from the middle to length; crc is a
\* uint16_t, and the test on it has TLC compute the value of the first half
\* before the second half starts
RECURSIVE CrcLoop(_, _, _, _)
CrcLoop(data, i, length, crc) ==
    IF i >= length \/ crc \notin 0..(U16 - 1) THEN crc
    ELSE IF length - i = 1 THEN CrcByte(Xor(crc, data[i + 1]), 8)
    ELSE LET mid == i + ((length - i) \div 2)
         IN  CrcLoop(data, mid, length, CrcLoop(data, i, mid, crc))

CRC16_Calc(data, length, initVal) == CrcLoop(data, 0, length, initVal)

----------------------------------------------------------------------------
(* buildFrame (protocol.h 81-140)                                          *)
(* payload holds the bytes at the payload pointer; payloadLen is the       *)
(* separate length argument.  The result has ret, len (what outBufLen      *)
(* points to on return), out (the bytes stored in outBuf), wrote (how many bytes the    *)
(* function stores) and overrun (it stores past outBufLen bytes: undefined *)
(* behaviour, out is then not determined and left empty).                  *)

\* the two checksum bytes are left out of the length
BuildLengthField_NoChecksum(payloadLen) == (1 + 1 + payloadLen) % U16

BuildLengthField(payloadLen) == (1 + 1 + payloadLen + 2) % U16

BuildTotalFrameSize(payloadLen) == (2 + 2 + BuildLengthField(payloadLen) + 2) % U16

BuildBytes(commandID, seq, payload, payloadLen) ==
    LET lengthField == BuildLengthField(payloadLen)
        body == <<commandID, seq>> \o SubSeq(payload, 1, payloadLen)
        crc == CRC16_Calc(body, (2 + payloadLen) % U16, 65535)
    IN  <<FRAME_HEAD_0, FRAME_HEAD_1, (lengthField % 256), ((lengthField \div 256) % 256)>>
        \o body
        \o <<(crc % 256), ((crc \div 256) % 256)>>
        \o <<FRAME_TAIL_0, FRAME_TAIL_1>>

buildFrame(commandID, seq, payload, payloadLen, outBufLen) ==
    IF BuildTotalFrameSize(payloadLen) > outBufLen
    THEN [ret |-> -1, len |-> outBufLen, out |-> <<>>, wrote |-> 0, overrun |-> FALSE]
    ELSE IF 10 + payloadLen > outBufLen
    THEN [ret |-> 0, len |-> (10 + payloadLen) % U16, out |-> <<>>,
          wrote |-> 10 + payloadLen, overrun |-> TRUE]
    ELSE [ret |-> 0, len |-> (10 + payloadLen) % U16,
          out |-> BuildBytes(commandID, seq, payload, payloadLen),
          wrote |-> 10 + payloadLen, overrun |-> FALSE]

----------------------------------------------------------------------------
(* parseFrame (protocol.h 142-214)                                         *)
(* inLen = Len(inBuf).  wantPayload is "pPayload != NULL".  The outputs    *)
(* cmd, seq, payload, payloadLen keep the caller's initial 0 when the      *)
(* function returns before storing them.  overread: the memcpy of the      *)
(* payload reads past inBuf (undefined behaviour); payload then holds the  *)
(* in-range part only.                                                     *)

ParseLengthField(inBuf) == inBuf[3] + (256 * inBuf[4])

ParsePayloadLen(lengthField) == (lengthField - 4) % U16

ParseNone(ret) ==
    [ret |-> ret, cmd |-> 0, seq |-> 0, payloadLen |-> 0, payload |-> <<>>,
     lengthField |-> 0, overread |-> FALSE]

parseFrame(inBuf, wantPayload) ==
    LET inLen == Len(inBuf) IN
    IF inLen < 8 THEN ParseNone(-3)
    ELSE IF inBuf[1] # FRAME_HEAD_0 \/ inBuf[2] # FRAME_HEAD_1 THEN ParseNone(-1)
    ELSE IF inBuf[inLen - 1] # FRAME_TAIL_0 \/ inBuf[inLen] # FRAME_TAIL_1 THEN ParseNone(-2)
    ELSE
      LET lengthField == ParseLengthField(inBuf)
          expectedFrameSize == (6 + lengthField) % U16
      IN
      IF expectedFrameSize # inLen THEN ParseNone(-3)
      ELSE
        LET payloadLen == ParsePayloadLen(lengthField)
            offset == (6 + payloadLen) % U16
            recvCRC == inBuf[offset + 1] + (256 * inBuf[offset + 2])
            crcLen == (2 + payloadLen) % U16
            calcCRC == CRC16_Calc(SubSeq(inBuf, 5, inLen), crcLen, 65535)
            inRange == Min(payloadLen, inLen - 6)
        IN  [ret |-> IF recvCRC # calcCRC THEN -4 ELSE 0,
             cmd |-> inBuf[5], seq |-> inBuf[6],
             payloadLen |-> payloadLen,
             payload |-> IF wantPayload THEN SubSeq(inBuf, 7, 6 + inRange) ELSE <<>>,
             lengthField |-> lengthField,
             overread |-> wantPayload /\ payloadLen > inLen - 6]

----------------------------------------------------------------------------
(* RX ring buffer (io_buffer.c 6-31) *)

\* initRxBuffer; buf is zero because g_app is memset to 0 in app_init
RxEmpty == [buf |-> [i \in 0..(RX_BUFFER_SIZE - 1) |-> 0], head |-> 0, tail |-> 0]

\* the ring is filled to the last cell, tail catching up with head
rxBufferFreeSpace_NoGap(r) == ((r.head + RX_BUFFER_SIZE - r.tail - 1) % RX_BUFFER_SIZE) + 1

rxBufferFreeSpace(r) == (r.head + RX_BUFFER_SIZE - r.tail - 1) % RX_BUFFER_SIZE

\* buffered byte count, as tryExtractOneFrame computes it
RxAvailable(r) == (r.tail + RX_BUFFER_SIZE - r.head) % RX_BUFFER_SIZE

\* the copy loop of feedRxBuffer, from i (0-based) to toWrite
RECURSIVE FeedLoop(_, _, _, _)
FeedLoop(r, data, i, toWrite) ==
    IF i >= toWrite THEN r
    ELSE FeedLoop([r EXCEPT !.buf[r.tail] = data[i + 1],
                            !.tail = (r.tail + 1) % RX_BUFFER_SIZE],
                  data, i + 1, toWrite)

feedRxBuffer(r, data) ==
    LET len == Len(data)
        freeSpace == rxBufferFreeSpace(r)
        toWrite == IF len <= freeSpace THEN len ELSE freeSpace
    IN  [r |-> FeedLoop(r, data, 0, toWrite), ret |-> toWrite]

----------------------------------------------------------------------------
(* Frame extractor (io_buffer.c 36-110) *)

ExtractFrameSize(lengthField) == (2 + 2 + lengthField + 2) % U16

\* no candidate is ever taken for noise
IsOversize_Never(frameSize) == FALSE

\* "frameSize > MAX_FRAME_SIZE": the candidate is skipped as noise
IsOversize(frameSize) == frameSize > MAX_FRAME_SIZE

\* a frame is taken one byte early
IsIncomplete_OffByOne(frameSize, available) == frameSize > available + 1

\* "frameSize > available": wait for more bytes
IsIncomplete(frameSize, available) == frameSize > available

\* the copy wraps at the usable capacity instead of the ring size
ExtractByte_WrapShort(r, idx, i) == r.buf[(idx + i) % (RX_BUFFER_SIZE - 1)]

\* the byte the copy loop reads for position i of the frame
ExtractByte(r, idx, i) == r.buf[(idx + i) % RX_BUFFER_SIZE]

ExtractFail(r, idx) ==
    [got |-> FALSE, frame |-> <<>>, r |-> r, idx |-> idx, lengthField |-> 0, frameSize |-> 0]

\* the while loop of tryExtractOneFrame
RECURSIVE ScanLoop(_, _, _)
ScanLoop(r, idx, available) ==
    IF available < MIN_FRAME_LEN THEN ExtractFail(r, idx)
    ELSE
      LET b0 == r.buf[idx]
          b1 == r.buf[(idx + 1) % RX_BUFFER_SIZE]
      IN
      IF b0 = 170 /\ b1 = 85
      THEN
        LET l0 == r.buf[(idx + 2) % RX_BUFFER_SIZE]
            l1 == r.buf[(idx + 3) % RX_BUFFER_SIZE]
            lengthField == l0 + (256 * l1)
            frameSize == ExtractFrameSize(lengthField)
        IN
        IF IsOversize(frameSize)
        THEN ScanLoop(r, (idx + 1) % RX_BUFFER_SIZE, available - 1)
        ELSE IF IsIncomplete(frameSize, available)
        THEN [ExtractFail(r, idx) EXCEPT !.lengthField = lengthField, !.frameSize = frameSize]
        ELSE [got |-> TRUE,
              frame |-> [i \in 1..frameSize |-> ExtractByte(r, idx, i - 1)],
              r |-> [r EXCEPT !.head = (idx + frameSize) % RX_BUFFER_SIZE],
              idx |-> idx, lengthField |-> lengthField, frameSize |-> frameSize]
      ELSE ScanLoop(r, (idx + 1) % RX_BUFFER_SIZE, available - 1)

\* head moves one byte past the frame head, not past the frame
tryExtractOneFrame_HeadByOne(r) ==
    IF RxAvailable(r) < MIN_FRAME_LEN THEN ExtractFail(r, r.head)
    ELSE WithValue(ScanLoop(r, r.head, RxAvailable(r)), LAMBDA e :
           IF e.got
           THEN [e EXCEPT !.r = [e.r EXCEPT !.head = (e.idx + 1) % RX_BUFFER_SIZE]]
           ELSE e)

tryExtractOneFrame(r) ==
    IF RxAvailable(r) < MIN_FRAME_LEN THEN ExtractFail(r, r.head)
    ELSE ScanLoop(r, r.head, RxAvailable(r))

NoExtract == [got |-> FALSE, idx |-> 0, lengthField |-> 0, frameSize |-> 0]

NoFeed == [len |-> 0, ret |-> 0]

RxIdleInit ==
    /\ rx = RxEmpty
    /\ stream = <<>>
    /\ pos = 0
    /\ pc = "idle"
    /\ delivered = <<>>
    /\ last = NoExtract
    /\ fed = NoFeed

----------------------------------------------------------------------------
(* TX frame queue (io_buffer.c 114-186).  A record is a 2-byte little-     *)
(* endian length followed by the frame bytes.  frame is the caller's       *)
(* buffer (1-based here), frameLen the separate length argument.           *)

\* initTxBuffer; buf is zero because g_app is memset to 0 in app_init
TxEmpty == [buf |-> [i \in 0..(TX_BUFFER_SIZE - 1) |-> 0], head |-> 0, tail |-> 0]

txBufferFreeSpace(t) == (t.head + TX_BUFFER_SIZE - t.tail - 1) % TX_BUFFER_SIZE

\* queued byte count, as dequeueTxFrame computes it
TxAvailable(t) == (t.tail + TX_BUFFER_SIZE - t.head) % TX_BUFFER_SIZE

\* "uint16_t needed = frameLen + 2"
EnqueueNeeded(frameLen) == (frameLen + 2) % U16

\* the k-th byte (0-based) enqueueTxFrame stores: the length prefix, then the frame
EnqueueByte(frame, frameLen, k) ==
    IF k = 0 THEN frameLen % 256
    ELSE IF k = 1 THEN (frameLen \div 256) % 256
    ELSE frame[k - 1]

\* the ring after the stores of enqueueTxFrame: 2 + frameLen bytes go to the cells
\* tail, tail + 1, ... modulo the ring size, each cell keeping the last byte stored
\* in it (the three store loops of the source, in closed form)
EnqueueStore(t, frame, frameLen) ==
    LET total == frameLen + 2
        cell(j) ==
            LET d == (j + TX_BUFFER_SIZE - t.tail) % TX_BUFFER_SIZE
            IN  IF d >= total THEN t.buf[j]
                ELSE EnqueueByte(frame, frameLen,
                                 d + (TX_BUFFER_SIZE * ((total - 1 - d) \div TX_BUFFER_SIZE)))
    IN  [buf |-> [j \in 0..(TX_BUFFER_SIZE - 1) |-> cell(j)],
         head |-> t.head,
         tail |-> (t.tail + total) % TX_BUFFER_SIZE]

enqueueTxFrame(t, frame, frameLen) ==
    IF EnqueueNeeded(frameLen) > txBufferFreeSpace(t)
    THEN [t |-> t, ret |-> -1]
    ELSE [t |-> EnqueueStore(t, frame, frameLen), ret |-> 0]

\* the whole record is copied whatever the caller's buffer holds
DequeueCopyLen_All(frameLen, maxLen) == frameLen

\* "copyLen = (frameLen <= maxLen) ? frameLen : maxLen"
DequeueCopyLen(frameLen, maxLen) == IF frameLen <= maxLen THEN frameLen ELSE maxLen

\* the result has t (the ring afterwards), ret, and out: the bytes stored in outFrame
dequeueTxFrame(t, maxLen) ==
    LET available == TxAvailable(t) IN
    IF available < 2 THEN [t |-> t, ret |-> 0, out |-> <<>>]
    ELSE
      LET l0 == t.buf[t.head]
          head1 == (t.head + 1) % TX_BUFFER_SIZE
          l1 == t.buf[head1]
          head2 == (head1 + 1) % TX_BUFFER_SIZE
          frameLen == l0 + (256 * l1)
      IN
      IF frameLen > available - 2
      THEN [t |-> [t EXCEPT !.head = (head2 + TX_BUFFER_SIZE - 2) % TX_BUFFER_SIZE],
            ret |-> 0, out |-> <<>>]
      ELSE
        LET copyLen == DequeueCopyLen(frameLen, maxLen)
        IN  [t |-> [t EXCEPT !.head = (head2 + frameLen) % TX_BUFFER_SIZE],
             ret |-> frameLen,
             out |-> [i \in 1..copyLen |-> t.buf[(head2 + i - 1) % TX_BUFFER_SIZE]]]

NoTxOp == [op |-> "none", n |-> 0, len |-> 0, maxLen |-> 0, ret |-> 0, out |-> <<>>]

TxIdleInit ==
    /\ tx = TxEmpty
    /\ txlog = NoTxOp
    /\ txq = <<>>

----------------------------------------------------------------------------
(* Device state (app.c 38-113) *)

MODE_CONTINUOUS == 0
MODE_TRIGGER == 1
STATUS_STOPPED == 0
STATUS_RUNNING == 1
MAX_CHANNELS == 8

NoChannel == [enabled |-> 0, sample_rate |-> 0, format |-> 0]
DefaultChannel == [enabled |-> 1, sample_rate |-> 10000, format |-> 1]

NoTrigger ==
    [armed |-> 0, occurred |-> 0, sending |-> 0, timestamp |-> 0,
     packets_to_send |-> 0, packets_sent |-> 0, next_trigger_time |-> 0]

\* g_app after app_init
AppInitState ==
    [mode |-> MODE_CONTINUOUS, status |-> STATUS_STOPPED, seq_counter |-> 0,
     channels |-> [c \in 0..(MAX_CHANNELS - 1) |-> IF c < 2 THEN DefaultChannel ELSE NoChannel],
     num_channels |-> 2,
     trigger |-> NoTrigger,
     last_data_send_time |-> 0, start_time |-> 0]

NoReq == [n |-> 0, ret |-> 1, cmd |-> 0, seq |-> 0, payload |-> <<>>, payloadLen |-> 0]
\* limit: the cycles the run loop is followed for; emitted: the frames the
\* periodic task has sent so far, each with its command and seq; samples: the
\* values the run's waveform takes; dataAt: the time of the last DataPacket of
\* the periodic task, -1 before the first; restarted: StartStream was handled
\* since that packet; sendErr: the drain of the cycle that just
\* ended stopped on a send that returned -1; modeAt: the clock value at which the
\* latest SetModeTrigger was handled, -1 if none was
DrvInit ==
    [pc |-> "top", loops |-> 0, alive |-> TRUE, script |-> <<>>, limit |-> MaxLoops,
     emitted |-> <<>>, samples |-> {0}, dataAt |-> -1, restarted |-> FALSE,
     sendErr |-> FALSE, modeAt |-> -1]

AppIdleInit ==
    /\ app = AppInitState
    /\ now = 0
    /\ req = NoReq
    /\ sent = <<>>
    /\ txout = <<>>
    /\ drv = DrvInit

----------------------------------------------------------------------------
(* Command handling (app.c 17-35, 132-283, 346-368) *)

CMD_PING == 1
CMD_PONG == 129
CMD_GET_STATUS == 2
CMD_STATUS_RESPONSE == 130
CMD_GET_DEVICE_INFO == 3
CMD_DEVICE_INFO_RESPONSE == 131
CMD_SET_MODE_CONTINUOUS == 16
CMD_SET_MODE_TRIGGER == 17
CMD_START_STREAM == 18
CMD_STOP_STREAM == 19
CMD_CONFIGURE_STREAM == 20
CMD_ACK == 144
CMD_NACK == 145
CMD_DATA_PACKET == 64
CMD_EVENT_TRIGGERED == 65
CMD_REQUEST_BUFFERED_DATA == 66
CMD_BUFFER_TRANSFER_COMPLETE == 79

U8 == 256

(* Times, sample rates and the other uint32_t values stay below 2^31 in every *)
(* run of the model (the clock advances by at most MaxLoops steps), so their  *)
(* sums and differences are written without the reduction modulo 2^32.        *)

\* little-endian stores and loads, as the pointer casts of the source do them on a
\* little-endian target
LE16(v) == <<v % 256, (v \div 256) % 256>>
LE32(v) == <<v % 256, (v \div 256) % 256, (v \div 65536) % 256, (v \div 16777216) % 256>>
\* *(uint32_t*)&p[off], off 0-based
ReadLE32(p, off) ==
    p[off + 1] + (256 * p[off + 2]) + (65536 * p[off + 3]) + (16777216 * p[off + 4])

\* the response goes out under the device's own counter
ResponseSeq_Counter(a, seq) == a.seq_counter

\* the seq argument the command cases pass on: the request's seq
ResponseSeq(a, seq) == seq

\* app_send_frame_with_seq: build into tx_frame_buf, then enqueue.  log holds the
\* frame passed to enqueueTxFrame and whether it was accepted.
app_send_frame_with_seq(t, cmd, seq, payload, len) ==
    WithValue(buildFrame(cmd, seq, payload, len, TX_FRAME_BUF_SIZE), LAMBDA b :
      IF b.ret = 0
      THEN WithValue(enqueueTxFrame(t, b.out, b.len), LAMBDA e :
             [t |-> e.t, log |-> <<[frame |-> b.out, queued |-> (e.ret = 0)]>>])
      ELSE [t |-> t, log |-> <<>>])

\* the handler result: the device state, the TX queue, the frames sent
Handled(a, s) == [a |-> a, t |-> s.t, log |-> s.log]

\* device_id 0x11223344AABBCCDD as it lies in memory
PongPayload == <<221, 204, 187, 170, 68, 51, 34, 17>>

\* sizeof(status_payload)
StatusPayloadLen == 8

StatusPayload(a) == SubSeq(<<a.mode, a.status, 0, 0, 0, 0, 0, 0>>, 1, StatusPayloadLen)

ChannelName(i) ==
    IF i = 0 THEN <<86, 111, 108, 116, 97, 103, 101>>
    ELSE <<67, 117, 114, 114, 101, 110, 116>>

\* the loop over the channels in the GET_DEVICE_INFO case, from channel i
RECURSIVE DeviceInfoChannels(_, _)
DeviceInfoChannels(a, i) ==
    IF i >= a.num_channels THEN <<>>
    ELSE <<i>> \o LE32(100000) \o LE16(3) \o <<Len(ChannelName(i))>> \o ChannelName(i)
         \o DeviceInfoChannels(a, i + 1)

DeviceInfoPayload(a) == <<6>> \o LE16(513) \o <<a.num_channels>> \o DeviceInfoChannels(a, 0)

\* any channel slot of the table is taken
ChannelInRange_Table(a, ch_id) == ch_id < MAX_CHANNELS

\* "ch_id < g_app.num_channels"
ChannelInRange(a, ch_id) == ch_id < a.num_channels

\* the loop of the CONFIGURE_STREAM case, from entry i at payload offset offset
RECURSIVE ConfigLoop(_, _, _, _, _, _)
ConfigLoop(a, payload, payload_len, num_configs, i, offset) ==
    IF ~(i < num_configs /\ offset + 6 <= payload_len) THEN a
    ELSE
      LET ch_id == payload[offset + 1]
          rate == ReadLE32(payload, offset + 1)
          fmt == payload[offset + 6]
          a2 == IF ChannelInRange(a, ch_id)
                THEN [a EXCEPT !.channels[ch_id] =
                         [enabled |-> IF rate > 0 THEN 1 ELSE 0,
                          sample_rate |-> rate, format |-> fmt]]
                ELSE a
      IN  ConfigLoop(a2, payload, payload_len, num_configs, i + 1, offset + 6)

\* a trigger need not have occurred
BufferedDataRefused_ModeOnly(a) == a.mode # MODE_TRIGGER

\* "g_app.mode != MODE_TRIGGER || !g_app.trigger.occurred"
BufferedDataRefused(a) == a.mode # MODE_TRIGGER \/ a.trigger.occurred = 0

\* an unknown command is reported as a parameter error
UnknownNack_Parameter == <<1, 1>>

\* "uint8_t err[2] = {0x05, 0x00}" of the default case
UnknownNack == <<5, 0>>

\* app_handle_command; rnd is the value of rand() % 5000 in the SET_MODE_TRIGGER case
app_handle_command(a, t, cmd, seq, payload, payload_len, rnd) ==
    LET rs == ResponseSeq(a, seq)
        Ack == app_send_frame_with_seq(t, CMD_ACK, rs, <<>>, 0)
        Nack(cat, code) == app_send_frame_with_seq(t, CMD_NACK, rs, <<cat, code>>, 2)
    IN
    CASE cmd = CMD_PING ->
           Handled(a, app_send_frame_with_seq(t, CMD_PONG, rs, PongPayload, 8))
      [] cmd = CMD_GET_STATUS ->
           Handled(a, app_send_frame_with_seq(t, CMD_STATUS_RESPONSE, rs,
                                              StatusPayload(a), StatusPayloadLen))
      [] cmd = CMD_GET_DEVICE_INFO ->
           Handled(a, app_send_frame_with_seq(t, CMD_DEVICE_INFO_RESPONSE, rs,
                                              DeviceInfoPayload(a), Len(DeviceInfoPayload(a))))
      [] cmd = CMD_SET_MODE_CONTINUOUS ->
           Handled([a EXCEPT !.mode = MODE_CONTINUOUS, !.trigger.armed = 0], Ack)
      [] cmd = CMD_SET_MODE_TRIGGER ->
           Handled([a EXCEPT !.mode = MODE_TRIGGER,
                             !.trigger.armed = 1,
                             !.trigger.occurred = 0,
                             !.trigger.sending = 0,
                             !.trigger.next_trigger_time = a.start_time + 5000 + rnd],
                   Ack)
      [] cmd = CMD_START_STREAM ->
           Handled([a EXCEPT !.status = STATUS_RUNNING, !.last_data_send_time = 0], Ack)
      [] cmd = CMD_STOP_STREAM ->
           Handled([a EXCEPT !.status = STATUS_STOPPED, !.trigger.sending = 0], Ack)
      [] cmd = CMD_CONFIGURE_STREAM ->
           IF payload_len < 1 THEN Handled(a, Nack(1, 1))
           ELSE Handled(ConfigLoop(a, payload, payload_len, payload[1], 0, 1), Ack)
      [] cmd = CMD_REQUEST_BUFFERED_DATA ->
           IF BufferedDataRefused(a) THEN Handled(a, Nack(2, 2))
           ELSE Handled(a, Ack)
      [] OTHER -> Handled(a, Nack(UnknownNack[1], UnknownNack[2]))

\* the frame is dispatched whatever parseFrame returned
app_on_frame_Unchecked(a, t, frame, rnd, died) ==
    WithValue(parseFrame(frame, TRUE), LAMBDA p :
      WithValue(app_handle_command(a, t, p.cmd, p.seq, p.payload, p.payloadLen, rnd),
                LAMBDA h : [a |-> h.a, t |-> h.t, log |-> h.log, p |-> p]))

\* app_on_frame: parse with a payload buffer, dispatch on success.  died: the copy
\* of parseFrame ran past the frame and the payload buffer and the process ended.
app_on_frame(a, t, frame, rnd, died) ==
    WithValue(parseFrame(frame, TRUE), LAMBDA p :
      IF died \/ p.ret # 0
      THEN [a |-> a, t |-> t, log |-> <<>>, p |-> p]
      ELSE WithValue(app_handle_command(a, t, p.cmd, p.seq, p.payload, p.payloadLen, rnd),
                     LAMBDA h : [a |-> h.a, t |-> h.t, log |-> h.log, p |-> p]))

----------------------------------------------------------------------------
(* Periodic task and TX drain (app.c 286-451) *)

DATA_SEND_INTERVAL == 10
\* MAX_FRAME_SIZE as app.c uses it for its frame buffers (the extractor model above
\* runs on the scaled value)
APP_MAX_FRAME_SIZE == 8192

\* app_send_frame: the device's own counter, post-incremented in uint8_t
\* the counter is passed on and left as it is
app_send_frame_CounterHeld(a, t, cmd, payload, len) ==
    WithValue(app_send_frame_with_seq(t, cmd, a.seq_counter, payload, len), LAMBDA s :
      [a |-> a, t |-> s.t, log |-> s.log])

\* the counter moves only for a frame the queue took
app_send_frame_CountQueued(a, t, cmd, payload, len) ==
    WithValue(app_send_frame_with_seq(t, cmd, a.seq_counter, payload, len), LAMBDA s :
      [a |-> [a EXCEPT !.seq_counter =
                 IF s.log # <<>> /\ s.log[1].queued THEN (a.seq_counter + 1) % U8
                 ELSE a.seq_counter],
       t |-> s.t, log |-> s.log])

app_send_frame(a, t, cmd, payload, len) ==
    WithValue(app_send_frame_with_seq(t, cmd, a.seq_counter, payload, len), LAMBDA s :
      [a |-> [a EXCEPT !.seq_counter = (a.seq_counter + 1) % U8], t |-> s.t, log |-> s.log])

\* ch_mask: bit i set for each enabled channel i below num_channels
RECURSIVE ChannelMask(_, _)
ChannelMask(a, i) ==
    IF i >= a.num_channels THEN 0
    ELSE (IF a.channels[i].enabled # 0 THEN Pow2(i) ELSE 0) + ChannelMask(a, i + 1)

\* the samples of the channels from ch on; sample is the int16_t value the sine and
\* rand() give, as its uint16_t bit pattern
RECURSIVE DataSamples(_, _, _)
DataSamples(a, ch, sample) ==
    IF ch >= a.num_channels THEN <<>>
    ELSE (IF a.channels[ch].enabled # 0
          THEN Flat([i \in 1..SAMPLES_PER_PACKET |-> LE16(sample)])
          ELSE <<>>)
         \o DataSamples(a, ch + 1, sample)

DataPayload(a, timestamp, sample) ==
    LE32(timestamp) \o LE16(ChannelMask(a, 0)) \o LE16(SAMPLES_PER_PACKET)
    \o DataSamples(a, 0, sample)

app_send_data_packet(a, t, timestamp, sample) ==
    LET payload == DataPayload(a, timestamp, sample)
    IN  app_send_frame(a, t, CMD_DATA_PACKET, payload, Len(payload))

app_send_trigger_event(a, t, timestamp) ==
    app_send_frame(a, t, CMD_EVENT_TRIGGERED,
                   LE32(timestamp) \o LE16(0) \o LE32(1000) \o LE32(1000), 14)

app_send_trigger_data_packet(a, t, sample) ==
    app_send_data_packet(a, t,
        a.trigger.timestamp + (a.trigger.packets_sent * DATA_SEND_INTERVAL), sample)

\* a send test that every tick passes
SendDue_EveryTick(a, current_time_ms) == current_time_ms >= a.last_data_send_time

\* "current_time_ms - g_app.last_data_send_time >= DATA_SEND_INTERVAL"; the last
\* send time is never ahead of the clock
SendDue(a, current_time_ms) ==
    current_time_ms - a.last_data_send_time >= DATA_SEND_INTERVAL

\* the test without "!g_app.trigger.occurred"
TriggerDue_OccurredIgnored(a, current_time_ms) ==
    /\ a.trigger.armed # 0
    /\ current_time_ms >= a.trigger.next_trigger_time

\* "g_app.trigger.armed && !g_app.trigger.occurred &&
\*  current_time_ms >= g_app.trigger.next_trigger_time"
TriggerDue(a, current_time_ms) ==
    /\ a.trigger.armed # 0
    /\ a.trigger.occurred = 0
    /\ current_time_ms >= a.trigger.next_trigger_time

\* the burst starts without occurred being set
TriggerCheck_OccurredUnset(a, t, current_time_ms, rndBurst) ==
    IF TriggerDue(a, current_time_ms)
    THEN WithValue(app_send_trigger_event(a, t, current_time_ms), LAMBDA ev :
           [a |-> [ev.a EXCEPT !.trigger.sending = 1,
                               !.trigger.timestamp = current_time_ms,
                               !.trigger.packets_to_send = 5 + rndBurst,
                               !.trigger.packets_sent = 0],
            t |-> ev.t, log |-> ev.log])
    ELSE [a |-> a, t |-> t, log |-> <<>>]

\* the trigger check of the periodic task; rndBurst is rand() % 6
TriggerCheck(a, t, current_time_ms, rndBurst) ==
    IF TriggerDue(a, current_time_ms)
    THEN WithValue(app_send_trigger_event(a, t, current_time_ms), LAMBDA ev :
           [a |-> [ev.a EXCEPT !.trigger.occurred = 1,
                               !.trigger.sending = 1,
                               !.trigger.timestamp = current_time_ms,
                               !.trigger.packets_to_send = 5 + rndBurst,
                               !.trigger.packets_sent = 0],
            t |-> ev.t, log |-> ev.log])
    ELSE [a |-> a, t |-> t, log |-> <<>>]

\* the burst step of the periodic task; rndNext is rand() % 5000
TriggerSend(a, t, current_time_ms, rndNext, sample) ==
    IF a.trigger.sending # 0 /\ SendDue(a, current_time_ms)
    THEN IF a.trigger.packets_sent < a.trigger.packets_to_send
         THEN WithValue(app_send_trigger_data_packet(a, t, sample), LAMBDA d :
                [a |-> [d.a EXCEPT !.trigger.packets_sent = a.trigger.packets_sent + 1,
                                   !.last_data_send_time = current_time_ms],
                 t |-> d.t, log |-> d.log])
         ELSE WithValue(app_send_frame(a, t, CMD_BUFFER_TRANSFER_COMPLETE, <<>>, 0), LAMBDA c :
                [a |-> [c.a EXCEPT !.trigger.sending = 0,
                                   !.trigger.occurred = 0,
                                   !.trigger.next_trigger_time =
                                       current_time_ms + 10000 + rndNext],
                 t |-> c.t, log |-> c.log])
    ELSE [a |-> a, t |-> t, log |-> <<>>]

app_periodic_task(a, t, current_time_ms, rndBurst, rndNext, sample) ==
    WithValue(IF a.start_time = 0 THEN [a EXCEPT !.start_time = current_time_ms] ELSE a,
              LAMBDA a1 :
      IF a1.status # STATUS_RUNNING THEN [a |-> a1, t |-> t, log |-> <<>>]
      ELSE IF a1.mode = MODE_TRIGGER
      THEN WithValue(TriggerCheck(a1, t, current_time_ms, rndBurst), LAMBDA c :
             WithValue(TriggerSend(c.a, c.t, current_time_ms, rndNext, sample), LAMBDA d :
               [a |-> d.a, t |-> d.t, log |-> c.log \o d.log]))
      ELSE IF a1.mode = MODE_CONTINUOUS
      THEN IF SendDue(a1, current_time_ms)
           THEN WithValue(app_send_data_packet(a1, t, current_time_ms, sample), LAMBDA d :
                  [a |-> [d.a EXCEPT !.last_data_send_time = current_time_ms],
                   t |-> d.t, log |-> d.log])
           ELSE [a |-> a1, t |-> t, log |-> <<>>]
      ELSE [a |-> a1, t |-> t, log |-> <<>>])

\* the while loop of app_process_tx_buffer: k frames have been sent; the send of
\* frame number failAt (1-based; 0: none) accepts fewer bytes than asked
RECURSIVE ProcessTxLoop(_, _, _, _)
ProcessTxLoop(t, failAt, k, out) ==
    WithValue(dequeueTxFrame(t, APP_MAX_FRAME_SIZE), LAMBDA d :
      IF d.ret = 0 THEN [t |-> d.t, out |-> out]
      ELSE WithValue(Append(out, [frame |-> d.out, len |-> d.ret, ok |-> (k + 1 # failAt)]),
                     LAMBDA o :
             IF k + 1 = failAt THEN [t |-> d.t, out |-> o]
             ELSE ProcessTxLoop(d.t, failAt, k + 1, o)))

\* the drain that passes the front record to send and returns
app_process_tx_buffer_OneFrame(t, failAt) ==
    WithValue(dequeueTxFrame(t, APP_MAX_FRAME_SIZE), LAMBDA d :
      IF d.ret = 0 THEN [t |-> d.t, out |-> <<>>]
      ELSE [t |-> d.t, out |-> <<[frame |-> d.out, len |-> d.ret, ok |-> (failAt # 1)]>>])

app_process_tx_buffer(t, failAt) == ProcessTxLoop(t, failAt, 0, <<>>)

----------------------------------------------------------------------------
(* Chunk-stream transport (examples/chunk-stream/transport_chunk_stream.c). *)
(* A block is named by its index in the pool, NULL by -1.  Each function    *)
(* below that enters a critical section (interrupts off) is one atomic      *)
(* step; the code between two of them is a step of its own.  The source has *)
(* chunks of 256 bytes, pools of 32 blocks and queues of 32 slots; the      *)
(* model keeps pool = queue slots at a size TLC can enumerate.              *)

CS_RX_CHUNK_MAX_BYTES == 2
CS_RX_POOL_COUNT == 3
CS_RX_READY_Q_LEN == 3
\* calls of the producer and of cs_recv, and their length arguments
MaxRxCalls == 2
MaxRxLen == 3
MaxRecvCalls == 2
MaxRecvLen == 2

CsNull == -1

CsRxBlkZero == [len |-> 0, rpos |-> 0, data |-> <<>>, in_use |-> 0]

\* the RX side after transport_chunk_stream_create_static and cs_init, with a
\* producer and a consumer that have not called yet.  prod.next: the value of
\* the next byte the driver receives; accepted: the accepted prefixes of the
\* producer calls so far, concatenated; received: the bytes cs_recv has returned;
\* cons.nb: the local nb of cs_recv, the block popped and not yet stored in
\* app_rx_cur
CsRxInit ==
    [rx_pool |-> [i \in 0..(CS_RX_POOL_COUNT - 1) |-> CsRxBlkZero],
     rx_free_stack |-> [i \in 0..(CS_RX_POOL_COUNT - 1) |-> CS_RX_POOL_COUNT - 1 - i],
     rx_free_top |-> CS_RX_POOL_COUNT,
     rx_ready_q |-> [i \in 0..(CS_RX_READY_Q_LEN - 1) |-> CsNull],
     rx_q_head |-> 0,
     rx_q_tail |-> 0,
     app_rx_cur |-> CsNull,
     rx_chunk_bytes |-> CS_RX_CHUNK_MAX_BYTES,
     prod |-> [pc |-> "idle", data |-> <<>>, len |-> 0, pushed |-> 0, blk |-> CsNull,
               chunk |-> 0, isr |-> FALSE, queued |-> <<>>, ret |-> 0, calls |-> 0,
               next |-> 1],
     cons |-> [pc |-> "idle", len |-> 0, copied |-> 0, out |-> <<>>, ret |-> 0,
               calls |-> 0, nb |-> CsNull],
     accepted |-> <<>>,
     received |-> <<>>]

\* the alloc that hands out the top block and leaves it on the free stack
rx_alloc_blk_KeepTop(t) ==
    IF t.rx_free_top > 0
    THEN [t |-> [t EXCEPT !.rx_pool[t.rx_free_stack[t.rx_free_top - 1]] =
                              [@ EXCEPT !.in_use = 1, !.len = 0, !.rpos = 0]],
          blk |-> t.rx_free_stack[t.rx_free_top - 1]]
    ELSE [t |-> t, blk |-> CsNull]

\* rx_alloc_blk: the t afterwards and the block, CsNull when the pool is empty
rx_alloc_blk(t) ==
    IF t.rx_free_top > 0
    THEN [t |-> [t EXCEPT !.rx_free_top = t.rx_free_top - 1,
                          !.rx_pool[t.rx_free_stack[t.rx_free_top - 1]] =
                              [@ EXCEPT !.in_use = 1, !.len = 0, !.rpos = 0]],
          blk |-> t.rx_free_stack[t.rx_free_top - 1]]
    ELSE [t |-> t, blk |-> CsNull]

rx_free_blk(t, blk) ==
    IF t.rx_free_top < CS_RX_POOL_COUNT
    THEN [t EXCEPT !.rx_pool[blk].in_use = 0,
                   !.rx_free_stack[t.rx_free_top] = blk,
                   !.rx_free_top = t.rx_free_top + 1]
    ELSE [t EXCEPT !.rx_pool[blk].in_use = 0]

\* the push that also takes the slot that tells a full ring from an empty one
rx_ready_push_NoGap(t, blk) ==
    [t |-> [t EXCEPT !.rx_ready_q[t.rx_q_tail] = blk,
                     !.rx_q_tail = (t.rx_q_tail + 1) % CS_RX_READY_Q_LEN],
     ok |-> 1]

rx_ready_push(t, blk) ==
    IF (t.rx_q_tail + 1) % CS_RX_READY_Q_LEN # t.rx_q_head
    THEN [t |-> [t EXCEPT !.rx_ready_q[t.rx_q_tail] = blk,
                          !.rx_q_tail = (t.rx_q_tail + 1) % CS_RX_READY_Q_LEN],
          ok |-> 1]
    ELSE [t |-> t, ok |-> 0]

rx_ready_pop(t) ==
    IF t.rx_q_head # t.rx_q_tail
    THEN [t |-> [t EXCEPT !.rx_q_head = (t.rx_q_head + 1) % CS_RX_READY_Q_LEN],
          blk |-> t.rx_ready_q[t.rx_q_head]]
    ELSE [t |-> t, blk |-> CsNull]

CS_TX_CHUNK_MAX_BYTES == 2
CS_TX_POOL_COUNT == 3
CS_TX_SEND_Q_LEN == 3

CsTxBlkZero == [len |-> 0, data |-> <<>>, in_use |-> 0]

\* the TX side after transport_chunk_stream_create_static and cs_init.  snd: the
\* task inside app_process_tx_buffer and cs_send; thr: ChunkStreamTxThread; hw:
\* the blocks handed to ops->tx_send_block, in call order; results: the frames
\* app_process_tx_buffer has passed to send, each with the value send returned;
\* flags: the thread flags of the TX thread, which osThreadFlagsSet sets and
\* osThreadFlagsWait waits for and clears; pushed: the contents of the blocks
\* tx_send_push has queued, in push order
CsTxInit ==
    [tx_pool |-> [i \in 0..(CS_TX_POOL_COUNT - 1) |-> CsTxBlkZero],
     tx_free_stack |-> [i \in 0..(CS_TX_POOL_COUNT - 1) |-> CS_TX_POOL_COUNT - 1 - i],
     tx_free_top |-> CS_TX_POOL_COUNT,
     tx_send_q |-> [i \in 0..(CS_TX_SEND_Q_LEN - 1) |-> CsNull],
     tx_q_head |-> 0,
     tx_q_tail |-> 0,
     tx_chunk_bytes |-> CS_TX_CHUNK_MAX_BYTES,
     snd |-> [pc |-> "deq", buf |-> <<>>, len |-> 0, sent |-> 0, blk |-> CsNull,
              chunk |-> 0, enqueued_any |-> 0],
     thr |-> [pc |-> "pop", blk |-> CsNull],
     flags |-> 0,
     hw |-> <<>>,
     pushed |-> <<>>,
     results |-> <<>>]

tx_alloc_blk(t) ==
    IF t.tx_free_top > 0
    THEN [t |-> [t EXCEPT !.tx_free_top = t.tx_free_top - 1,
                          !.tx_pool[t.tx_free_stack[t.tx_free_top - 1]] =
                              [@ EXCEPT !.in_use = 1, !.len = 0]],
          blk |-> t.tx_free_stack[t.tx_free_top - 1]]
    ELSE [t |-> t, blk |-> CsNull]

tx_free_blk(t, blk) ==
    IF t.tx_free_top < CS_TX_POOL_COUNT
    THEN [t EXCEPT !.tx_pool[blk].in_use = 0,
                   !.tx_free_stack[t.tx_free_top] = blk,
                   !.tx_free_top = t.tx_free_top + 1]
    ELSE [t EXCEPT !.tx_pool[blk].in_use = 0]

tx_send_push(t, blk) ==
    IF (t.tx_q_tail + 1) % CS_TX_SEND_Q_LEN # t.tx_q_head
    THEN [t |-> [t EXCEPT !.tx_send_q[t.tx_q_tail] = blk,
                          !.tx_q_tail = (t.tx_q_tail + 1) % CS_TX_SEND_Q_LEN],
          ok |-> 1]
    ELSE [t |-> t, ok |-> 0]

tx_send_pop(t) ==
    IF t.tx_q_head # t.tx_q_tail
    THEN [t |-> [t EXCEPT !.tx_q_head = (t.tx_q_head + 1) % CS_TX_SEND_Q_LEN],
          blk |-> t.tx_send_q[t.tx_q_head]]
    ELSE [t |-> t, blk |-> CsNull]

ChunkIdleInit ==
    /\ csrx = CsRxInit
    /\ cstx = CsTxInit

----------------------------------------------------------------------------
(* Codec harness: the inputs are drawn in the initial state, the actions   *)
(* apply buildFrame, corrupt one bit of the built frame, and apply         *)
(* parseFrame to the bytes on the wire.                                    *)

RECURSIVE SeqsUpTo(_, _)
SeqsUpTo(S, n) ==
    IF n = 0 THEN {<<>>}
    ELSE LET shorter == SeqsUpTo(S, n - 1)
         IN  shorter \cup {Append(q, x) : q \in shorter, x \in S}

Cmds == {1, 145}
Seqs == {0, 255}
PayloadBytes == {0, 85, 255}
Payloads == SeqsUpTo(PayloadBytes, MaxPayload)
\* payload lengths at the top of the uint16_t range
BigLens == {65525, 65526, 65530, 65535}
OutCaps == (9 .. (10 + MaxPayload)) \cup {0, TX_FRAME_BUF_SIZE}

RawBytes == {0, 255}
RawHeads == {<<FRAME_HEAD_0, FRAME_HEAD_1>>, <<FRAME_HEAD_0, 0>>}
RawTails == {<<FRAME_TAIL_0, FRAME_TAIL_1>>, <<FRAME_TAIL_0, 0>>}
RawInputs ==
    {h \o <<l0, 0>> \o b \o t :
        h \in RawHeads, l0 \in 0..(MaxRawBody + 4),
        b \in SeqsUpTo(RawBytes, MaxRawBody), t \in RawTails}

NoBuild == [ret |-> 1, len |-> 0, out |-> <<>>, wrote |-> 0, overrun |-> FALSE]
NoParse == ParseNone(1)
NoFlip == <<0, 0>>

CodecIdle ==
    [phase |-> "off", cmd |-> 0, seq |-> 0, payload |-> <<>>, payloadLen |-> 0,
     outCap |-> 0, built |-> NoBuild, wire |-> <<>>, flip |-> NoFlip,
     wantPayload |-> FALSE, parsed |-> NoParse]

BuildInits ==
    {[CodecIdle EXCEPT !.phase = "init", !.cmd = c, !.seq = s, !.payload = p,
                       !.payloadLen = Len(p), !.outCap = cap] :
        c \in Cmds, s \in Seqs, p \in Payloads, cap \in OutCaps}
    \cup
    {[CodecIdle EXCEPT !.phase = "init", !.cmd = 1, !.payloadLen = n, !.outCap = cap] :
        n \in BigLens, cap \in OutCaps}

RawInits == {[CodecIdle EXCEPT !.phase = "raw", !.wire = w] : w \in RawInputs}

FlipBit(byte, k) ==
    IF (byte \div Pow2(k)) % 2 = 1 THEN byte - Pow2(k) ELSE byte + Pow2(k)

CodecInit ==
    /\ ChunkIdleInit
    /\ codec \in BuildInits \cup RawInits
    /\ RxIdleInit
    /\ TxIdleInit
    /\ AppIdleInit

\* buildFrame on the drawn inputs; a store past the output buffer is undefined
\* behaviour: the call returns, or the process dies
DoBuild ==
    /\ codec.phase = "init"
    /\ LET r == buildFrame(codec.cmd, codec.seq, codec.payload, codec.payloadLen, codec.outCap)
       IN  \E dies \in (IF r.overrun THEN BOOLEAN ELSE {FALSE}) :
             codec' = [codec EXCEPT !.phase = IF dies THEN "crashed" ELSE "built",
                                    !.built = r, !.wire = r.out]
    /\ UNCHANGED <<csVars, rxVars, txVars, appVars>>

\* one bit of one byte of the built frame changes on the wire
DoFlip ==
    /\ codec.phase = "built"
    /\ codec.built.ret = 0
    /\ ~codec.built.overrun
    /\ \E i \in 1..Len(codec.wire), k \in 0..7 :
         codec' = [codec EXCEPT !.phase = "flipped", !.flip = <<i, k>>,
                                !.wire = [codec.wire EXCEPT ![i] = FlipBit(codec.wire[i], k)]]
    /\ UNCHANGED <<csVars, rxVars, txVars, appVars>>

\* parseFrame on the wire bytes; a copy that reads past the input is undefined
\* behaviour: the call returns, or the process dies
DoParse ==
    /\ \/ codec.phase \in {"flipped", "raw"}
       \/ codec.phase = "built" /\ codec.built.ret = 0 /\ ~codec.built.overrun
    /\ \E want \in BOOLEAN :
         LET r == parseFrame(codec.wire, want)
         IN  \E dies \in (IF r.overread THEN BOOLEAN ELSE {FALSE}) :
               codec' = [codec EXCEPT !.phase = IF dies THEN "crashed" ELSE "parsed",
                                      !.wantPayload = want, !.parsed = r]
    /\ UNCHANGED <<csVars, rxVars, txVars, appVars>>

CodecNext == DoBuild \/ DoFlip \/ DoParse

SpecCodec == CodecInit /\ [][CodecNext]_vars

----------------------------------------------------------------------------
(* Receive path: the peer's byte stream reaches the device in chunks; each *)
(* chunk is fed to the ring and the ring is drained (main.c 134-148), one  *)
(* tryExtractOneFrame call per step of the drain loop.                     *)

PingFrame == BuildBytes(1, 0, <<>>, 0)
\* a frame whose payload looks like a frame head
CfgFrame == BuildBytes(20, 1, <<170, 85>>, 2)
ValidFrames == {PingFrame, CfgFrame}

NoiseByte == <<255>>
\* FF FF AA 55: the AA 55 is followed by the next item's first bytes
ResyncNoise == <<255, 255, 170, 85>>
\* AA 55 with length field 0x7FFF
SpurBig == <<170, 85, 255, 127>>
\* AA 55 with length field 0xFFFA
SpurWrap == <<170, 85, 250, 255>>
\* AA 55 with length field 0x000A: 16 bytes, a size a frame may have
SpurSmall == <<170, 85, 10, 0>>
SpuriousItems == {SpurBig, SpurWrap, SpurSmall}

Items == ValidFrames \cup SpuriousItems \cup {NoiseByte, ResyncNoise}
Scenarios == SeqsUpTo(Items, MaxItems)

RxInit ==
    /\ ChunkIdleInit
    /\ codec = CodecIdle
    /\ rx = RxEmpty
    /\ stream \in Scenarios
    /\ pos = 0
    /\ pc = "idle"
    /\ delivered = <<>>
    /\ last = NoExtract
    /\ fed = NoFeed
    /\ TxIdleInit
    /\ AppIdleInit

\* recv hands over the next n bytes; feedRxBuffer stores what fits, then the drain starts
Feed ==
    /\ pc = "idle"
    /\ LET bytes == Flat(stream)
       IN  /\ pos < Len(bytes)
           /\ \E n \in 1..Min(MaxChunk, Len(bytes) - pos) :
                LET f == feedRxBuffer(rx, SubSeq(bytes, pos + 1, pos + n))
                IN  /\ rx' = f.r
                    /\ fed' = [len |-> n, ret |-> f.ret]
                    /\ pos' = pos + n
    /\ pc' = "drain"
    /\ UNCHANGED <<csVars, codec, stream, delivered, last, txVars, appVars>>

\* one iteration of the loop in tryParseFramesFromRx: extract, then call onFrame
DrainStep ==
    /\ pc = "drain"
    /\ LET e == tryExtractOneFrame(rx)
       IN  /\ e.got => Len(delivered) < MaxDelivered
           /\ rx' = e.r
           /\ delivered' = IF e.got THEN Append(delivered, e.frame) ELSE delivered
           /\ pc' = IF e.got THEN "drain" ELSE "idle"
           /\ last' = [got |-> e.got, idx |-> e.idx, lengthField |-> e.lengthField,
                       frameSize |-> e.frameSize]
    /\ UNCHANGED <<csVars, codec, stream, pos, fed, txVars, appVars>>

RxNext == Feed \/ DrainStep

SpecRx == RxInit /\ [][RxNext]_vars

(* The same receive path on streams that fill the ring: header-free bytes   *)
(* stay buffered, so a later chunk finds less free space than its length.   *)
FillNoise == <<255, 255, 255, 255, 255, 255, 255, 255, 255, 255>>
FeedScenarios ==
    {<<a, FillNoise, FillNoise, b>> : a \in {PingFrame, CfgFrame, FillNoise},
                                      b \in {PingFrame, CfgFrame, FillNoise}}

FeedInit ==
    /\ ChunkIdleInit
    /\ codec = CodecIdle
    /\ rx = RxEmpty
    /\ stream \in FeedScenarios
    /\ pos = 0
    /\ pc = "idle"
    /\ delivered = <<>>
    /\ last = NoExtract
    /\ fed = NoFeed
    /\ TxIdleInit
    /\ AppIdleInit

SpecFeed == FeedInit /\ [][RxNext]_vars

----------------------------------------------------------------------------
(* TX queue harness: any interleaving of enqueueTxFrame and dequeueTxFrame  *)
(* calls on the queue app_init leaves.  A frame is named by <<length, tag>>; *)
(* the caller's buffer holds length bytes that depend on both.              *)

TxFrames == {<<0, 0>>, <<3, 1>>, <<10, 0>>, <<10, 1>>, <<20, 0>>, <<65534, 0>>}
TxFrameBuf(f) == [i \in 1..f[1] |-> (f[1] + (16 * f[2]) + i) % 256]
\* the maxLen arguments: a short buffer, and one that holds any record
TxOutCaps == {2, TX_BUFFER_SIZE}

TxInit ==
    /\ ChunkIdleInit
    /\ codec = CodecIdle
    /\ RxIdleInit
    /\ TxIdleInit
    /\ AppIdleInit

TxEnqueue ==
    /\ txlog.n < MaxTxOps
    /\ \E f \in TxFrames :
         LET r == enqueueTxFrame(tx, TxFrameBuf(f), f[1])
         IN  /\ tx' = r.t
             /\ txlog' = [op |-> "enq", n |-> txlog.n + 1, len |-> f[1], maxLen |-> 0,
                          ret |-> r.ret, out |-> <<>>]
             /\ txq' = IF r.ret = 0 THEN Append(txq, f) ELSE txq
    /\ UNCHANGED <<csVars, codec, rxVars, appVars>>

TxDequeue ==
    /\ txlog.n < MaxTxOps
    /\ \E m \in TxOutCaps :
         LET r == dequeueTxFrame(tx, m)
         IN  /\ tx' = r.t
             /\ txlog' = [op |-> "deq", n |-> txlog.n + 1, len |-> 0, maxLen |-> m,
                          ret |-> r.ret, out |-> r.out]
             /\ txq' = IF r.ret > 0 /\ txq # <<>> THEN Tail(txq) ELSE txq
    /\ UNCHANGED <<csVars, codec, rxVars, appVars>>

TxNext == TxEnqueue \/ TxDequeue

SpecTx == TxInit /\ [][TxNext]_vars

----------------------------------------------------------------------------
(* Device run loop (main.c 131-172): each cycle reads the clock, hands the  *)
(* frames that arrived to app_on_frame, runs the periodic task and drains   *)
(* the TX queue.  The frames are the ones a peer's encoder produces, a frame *)
(* with a wrong checksum, and the 8-byte frame parseFrame takes for valid.  *)
(* The peer sends a script of frames, as inject_test_commands does: some    *)
(* commands that set the device up, then any one frame.                     *)

ReqSeq == 7
Request(cmd, payload) == BuildBytes(cmd, ReqSeq, payload, Len(payload))

\* the payload inject_test_commands sends: channels 0 and 1 at 10000 Hz, format 1
CfgExample == <<2, 0, 16, 39, 0, 0, 1, 1, 16, 39, 0, 0, 1>>
\* channel 5 (out of range) at 10000 Hz; channel 1 at 0 Hz, format 2
CfgChange == <<2, 5, 16, 39, 0, 0, 1, 1, 0, 0, 0, 0, 2>>
\* count 2, one entry: channel 0 at 20000 Hz, format 2
CfgShort == <<2, 0, 32, 78, 0, 0, 2>>
\* count 1, half an entry
CfgCut == <<1, 0, 16>>
CfgPayloads == {CfgExample, CfgChange, CfgShort, CfgCut, <<>>}

PlainCmds ==
    {CMD_PING, CMD_GET_STATUS, CMD_GET_DEVICE_INFO, CMD_SET_MODE_CONTINUOUS,
     CMD_SET_MODE_TRIGGER, CMD_START_STREAM, CMD_STOP_STREAM,
     CMD_REQUEST_BUFFERED_DATA, 153}

\* AA 55 02 00 FF FF 55 AA: length field 2, "checksum" FF FF
RuntFrame == <<170, 85, 2, 0, 255, 255, 85, 170>>
BadCrcFrame == [Request(CMD_SET_MODE_TRIGGER, <<>>) EXCEPT ![7] = 0]

AppFrames ==
    {Request(c, <<>>) : c \in PlainCmds}
    \cup {Request(CMD_CONFIGURE_STREAM, p) : p \in CfgPayloads}
    \cup {RuntFrame, BadCrcFrame}

SetupScripts ==
    {<<>>,
     <<Request(CMD_SET_MODE_TRIGGER, <<>>)>>,
     <<Request(CMD_START_STREAM, <<>>)>>,
     <<Request(CMD_SET_MODE_TRIGGER, <<>>), Request(CMD_START_STREAM, <<>>)>>,
     <<Request(CMD_CONFIGURE_STREAM, CfgChange)>>,
     <<Request(CMD_GET_DEVICE_INFO, <<>>)>>}

Scripts == {<<>>} \cup {pre \o <<f>> : pre \in SetupScripts, f \in AppFrames}

\* elapsed time between two clock reads (ms)
ClockSteps == {5, 5000}
\* values of rand() % 5000 and rand() % 6, and of a sample
TimeRands == {0, 4999}
BurstRands == {0, 5}
SampleValues == {0, 65486}

\* g_app late in a triggered stream.  SetModeTrigger (rand() % 5000 = 0) and
\* StartStream came before the first tick at 10 ms; ticks followed every 10 ms.
\* The trigger fired at 5000 and, each time 10000 ms after the end of a burst
\* (rand() % 5000 = 0), 21 times more: twenty bursts of 10 DataPackets and two of
\* 5, 20 * 12 + 2 * 7 = 254 frames in all.  The last burst began at 217050, sent
\* its last DataPacket at 217090 and BufferTransferComplete at 217100.
LateTriggerState ==
    [AppInitState EXCEPT
        !.mode = MODE_TRIGGER, !.status = STATUS_RUNNING, !.seq_counter = 254,
        !.trigger = [armed |-> 1, occurred |-> 0, sending |-> 0, timestamp |-> 217050,
                     packets_to_send |-> 5, packets_sent |-> 5,
                     next_trigger_time |-> 227100],
        !.last_data_send_time = 217090, !.start_time = 10]

\* the last clock value read in that run before the trigger is due again
LateNow == 227095

\* what arrives in the cycles that follow
LateScripts == {<<>>, <<Request(CMD_PING, <<>>)>>}

\* the runs start after app_init with one of the scripts, or late in a triggered
\* stream
AppInit ==
    /\ ChunkIdleInit
    /\ codec = CodecIdle
    /\ RxIdleInit
    /\ TxIdleInit
    /\ \/ /\ app = AppInitState
          /\ now = 0
          /\ drv \in {[DrvInit EXCEPT !.script = sc, !.samples = SampleValues] :
                          sc \in Scripts}
       \/ /\ app = LateTriggerState
          /\ now = LateNow
          /\ drv \in {[DrvInit EXCEPT !.script = sc, !.modeAt = 0,
                                       !.dataAt = LateTriggerState.last_data_send_time] :
                          sc \in LateScripts}
    /\ req = NoReq
    /\ sent = <<>>
    /\ txout = <<>>

\* "uint32_t now = get_time_ms()" at the top of the loop
ReadClock ==
    /\ drv.alive
    /\ drv.pc = "top"
    /\ drv.loops < drv.limit
    /\ \E d \in ClockSteps : now' = now + d
    /\ drv' = [drv EXCEPT !.pc = "recv", !.sendErr = FALSE]
    /\ UNCHANGED <<csVars, codec, rxVars, txVars, app, req, sent, txout>>

\* tryParseFramesFromRx hands the next frame of the script to app_on_frame
OnFrame ==
    /\ drv.alive
    /\ drv.pc = "recv"
    /\ req.n < MaxCmds
    /\ drv.script # <<>>
    /\ \E p \in {parseFrame(Head(drv.script), TRUE)} :
       \E rnd \in (IF p.ret = 0 /\ p.cmd = CMD_SET_MODE_TRIGGER THEN TimeRands ELSE {0}),
          died \in (IF p.overread THEN BOOLEAN ELSE {FALSE}) :
       \E r \in {app_on_frame(app, tx, Head(drv.script), rnd, died)} :
          /\ app' = r.a
          /\ tx' = r.t
          /\ sent' = r.log
          /\ req' = [n |-> req.n + 1, ret |-> p.ret, cmd |-> p.cmd, seq |-> p.seq,
                     payload |-> p.payload, payloadLen |-> p.payloadLen]
          /\ drv' = [drv EXCEPT !.alive = ~died, !.script = Tail(drv.script),
                                !.restarted = drv.restarted
                                    \/ (p.ret = 0 /\ p.cmd = CMD_START_STREAM),
                                !.modeAt = IF p.ret = 0 /\ ~died
                                              /\ p.cmd = CMD_SET_MODE_TRIGGER
                                           THEN now ELSE drv.modeAt]
    /\ UNCHANGED <<csVars, codec, rxVars, txlog, txq, now, txout>>

\* the frames of a send log as the peer sees them: command and seq byte
Emitted(log) ==
    [i \in 1..Len(log) |-> [cmd |-> log[i].frame[5], seq |-> log[i].frame[6]]]

\* the send log holds a DataPacket
HasData(log) == \E i \in 1..Len(log) : log[i].frame[5] = CMD_DATA_PACKET

\* app_periodic_task(now), after the frames of this cycle; rand() is drawn where
\* the task can come to call it
Tick ==
    /\ drv.alive
    /\ drv.pc = "recv"
    /\ \E rndBurst \in (IF TriggerDue(app, now) THEN BurstRands ELSE {0}),
          rndNext \in (IF app.trigger.sending # 0 THEN TimeRands ELSE {0}),
          sample \in drv.samples :
       \E r \in {app_periodic_task(app, tx, now, rndBurst, rndNext, sample)} :
          /\ app' = r.a
          /\ tx' = r.t
          /\ sent' = r.log
          /\ drv' = [drv EXCEPT !.pc = "tx",
                                !.emitted = drv.emitted \o Emitted(r.log),
                                !.dataAt = IF HasData(r.log) THEN now ELSE drv.dataAt,
                                !.restarted = drv.restarted /\ ~HasData(r.log)]
    /\ UNCHANGED <<csVars, codec, rxVars, txlog, txq, now, req, txout>>

\* app_process_tx_buffer; transport send takes every frame in full, or for one of
\* them returns a smaller count or -1 (err); either way the function returns to
\* the loop, which sleeps and starts its next cycle
ProcessTx ==
    /\ drv.alive
    /\ drv.pc = "tx"
    /\ \E all \in {app_process_tx_buffer(tx, 0)} :
       \E failAt \in 0..Len(all.out) :
       \E r \in {IF failAt = 0 THEN all ELSE app_process_tx_buffer(tx, failAt)},
          err \in (IF failAt = 0 THEN {FALSE} ELSE BOOLEAN) :
          /\ tx' = r.t
          /\ txout' = r.out
          /\ drv' = [drv EXCEPT !.pc = "top", !.loops = drv.loops + 1, !.sendErr = err]
    /\ UNCHANGED <<csVars, codec, rxVars, txlog, txq, app, now, req, sent>>

\* the clock is read and transport recv returns -1: "Transport error, exiting",
\* break
RecvError ==
    /\ drv.alive
    /\ drv.pc = "top"
    /\ drv.loops < drv.limit
    /\ \E d \in ClockSteps : now' = now + d
    /\ drv' = [drv EXCEPT !.pc = "exit", !.sendErr = FALSE]
    /\ UNCHANGED <<csVars, codec, rxVars, txVars, app, req, sent, txout>>

\* after the loop: app_cleanup() stops the stream, transport->cleanup() follows
Shutdown ==
    /\ drv.pc = "exit"
    /\ app' = [app EXCEPT !.status = STATUS_STOPPED]
    /\ drv' = [drv EXCEPT !.pc = "done"]
    /\ UNCHANGED <<csVars, codec, rxVars, txVars, now, req, sent, txout>>

AppNext == ReadClock \/ OnFrame \/ Tick \/ ProcessTx \/ RecvError \/ Shutdown

SpecApp == AppInit /\ [][AppNext]_vars

----------------------------------------------------------------------------
(* Streaming harness: the device has been set up by commands and started,   *)
(* and the run loop goes on with no further frames from the peer.           *)

\* the device state after the commands cmds (empty payloads), each handled by
\* app_handle_command; rnd is the value of rand() % 5000
RECURSIVE AfterCommands(_, _, _)
AfterCommands(a, cmds, rnd) ==
    IF cmds = <<>> THEN a
    ELSE AfterCommands(
             app_handle_command(a, TxEmpty, Head(cmds), ReqSeq, <<>>, 0, rnd).a,
             Tail(cmds), rnd)

StreamSetups == {<<CMD_SET_MODE_TRIGGER, CMD_START_STREAM>>}

StreamInit ==
    /\ ChunkIdleInit
    /\ codec = CodecIdle
    /\ RxIdleInit
    /\ TxIdleInit
    /\ app \in {AfterCommands(AppInitState, c, rnd) : c \in StreamSetups, rnd \in TimeRands}
    /\ now = 0
    /\ req = NoReq
    /\ sent = <<>>
    /\ txout = <<>>
    /\ drv = [DrvInit EXCEPT !.limit = MaxStreamLoops, !.modeAt = 0]

StreamNext == ReadClock \/ Tick \/ ProcessTx

SpecStream == StreamInit /\ [][StreamNext]_vars

----------------------------------------------------------------------------
(* Long runs with commands: the device is in Trigger mode and started, the  *)
(* clock advances by five seconds from cycle to cycle, and the frames of a  *)
(* script arrive in whatever cycles the peer sends them.  The loop keeps    *)
(* running: "while (g_running)" with a 1 ms sleep per cycle.                *)

LongRunScripts ==
    {<<>>,
     <<Request(CMD_STOP_STREAM, <<>>), Request(CMD_START_STREAM, <<>>)>>,
     <<Request(CMD_SET_MODE_TRIGGER, <<>>)>>,
     <<Request(CMD_SET_MODE_CONTINUOUS, <<>>), Request(CMD_SET_MODE_TRIGGER, <<>>)>>}

LongRunInit ==
    /\ ChunkIdleInit
    /\ codec = CodecIdle
    /\ RxIdleInit
    /\ TxIdleInit
    /\ app \in {AfterCommands(AppInitState, c, rnd) : c \in StreamSetups, rnd \in TimeRands}
    /\ now = 0
    /\ req = NoReq
    /\ sent = <<>>
    /\ txout = <<>>
    /\ drv \in {[DrvInit EXCEPT !.limit = MaxLongLoops, !.script = sc, !.modeAt = 0] :
                    sc \in LongRunScripts}

\* "uint32_t now = get_time_ms()", five seconds after the previous read
ReadClockSeconds ==
    /\ drv.alive
    /\ drv.pc = "top"
    /\ drv.loops < drv.limit
    /\ now' = now + 5000
    /\ drv' = [drv EXCEPT !.pc = "recv", !.sendErr = FALSE]
    /\ UNCHANGED <<csVars, codec, rxVars, txVars, app, req, sent, txout>>

\* app_process_tx_buffer with a transport whose send takes every frame in full
ProcessTxAccepted ==
    /\ drv.alive
    /\ drv.pc = "tx"
    /\ \E r \in {app_process_tx_buffer(tx, 0)} :
          /\ tx' = r.t
          /\ txout' = r.out
          /\ drv' = [drv EXCEPT !.pc = "top", !.loops = drv.loops + 1]
    /\ UNCHANGED <<csVars, codec, rxVars, txlog, txq, app, now, req, sent>>

LongRunNext == ReadClockSeconds \/ OnFrame \/ Tick \/ ProcessTxAccepted

\* the loop does not stop between two calls: after recv and the frames it
\* brought the periodic task runs, then the drain, then the next cycle begins
PeriodicTaskRuns == []<>(drv.pc # "recv")

SpecLongRun ==
    /\ LongRunInit
    /\ [][LongRunNext]_vars
    /\ WF_vars(ReadClockSeconds)
    /\ WF_vars(ProcessTxAccepted)
    /\ PeriodicTaskRuns

----------------------------------------------------------------------------
(* Receive step of the run loop with the handler attached (main.c 134-148): *)
(* recv hands over bytes, feedRxBuffer stores them, tryParseFramesFromRx    *)
(* extracts frame after frame and calls app_on_frame on each.               *)

GoodRequests ==
    {Request(c, <<>>) : c \in {CMD_PING, CMD_SET_MODE_TRIGGER, CMD_START_STREAM}}

\* a StartStream request with a wrong tail (either byte), and the frame with a
\* wrong checksum
BadTailFrames ==
    {[Request(CMD_START_STREAM, <<>>) EXCEPT ![9] = 0],
     [Request(CMD_START_STREAM, <<>>) EXCEPT ![10] = 0]}
BadFrames == BadTailFrames \cup {BadCrcFrame}

MainRxItems == GoodRequests \cup BadFrames \cup {NoiseByte}
MainRxScenarios ==
    SeqsUpTo(MainRxItems, 2)
    \cup {<<g, b, h>> : g \in GoodRequests, b \in BadFrames, h \in GoodRequests}

MainRxInit ==
    /\ ChunkIdleInit
    /\ codec = CodecIdle
    /\ rx = RxEmpty
    /\ stream \in MainRxScenarios
    /\ pos = 0
    /\ pc = "idle"
    /\ delivered = <<>>
    /\ last = NoExtract
    /\ fed = NoFeed
    /\ TxIdleInit
    /\ AppIdleInit

\* recv returns n > 0 bytes, a few or all the peer has sent; feedRxBuffer stores
\* what fits and the drain starts
MainFeed ==
    /\ pc = "idle"
    /\ drv.alive
    /\ LET bytes == Flat(stream)
       IN  /\ pos < Len(bytes)
           /\ \E n \in (1..Min(MaxChunk, Len(bytes) - pos)) \cup {Len(bytes) - pos} :
                LET f == feedRxBuffer(rx, SubSeq(bytes, pos + 1, pos + n))
                IN  /\ rx' = f.r
                    /\ fed' = [len |-> n, ret |-> f.ret]
                    /\ pos' = pos + n
    /\ pc' = "drain"
    /\ UNCHANGED <<csVars, codec, stream, delivered, last, txVars, appVars>>

\* one iteration of the loop in tryParseFramesFromRx: the extracted frame goes
\* to app_on_frame, which parses it and dispatches it; no frame ends the loop
MainDrainStep ==
    /\ pc = "drain"
    /\ drv.alive
    /\ \E e \in {tryExtractOneFrame(rx)} :
         /\ e.got => Len(delivered) < MaxDelivered
         /\ last' = [got |-> e.got, idx |-> e.idx, lengthField |-> e.lengthField,
                     frameSize |-> e.frameSize]
         /\ rx' = e.r
         /\ IF e.got
            THEN \E p \in {parseFrame(e.frame, TRUE)} :
                 \E rnd \in (IF p.ret = 0 /\ p.cmd = CMD_SET_MODE_TRIGGER
                             THEN TimeRands ELSE {0}),
                    died \in (IF p.overread THEN BOOLEAN ELSE {FALSE}) :
                 \E r \in {app_on_frame(app, tx, e.frame, rnd, died)} :
                    /\ delivered' = Append(delivered, e.frame)
                    /\ pc' = "drain"
                    /\ app' = r.a
                    /\ tx' = r.t
                    /\ sent' = r.log
                    /\ req' = [n |-> req.n + 1, ret |-> p.ret, cmd |-> p.cmd,
                               seq |-> p.seq, payload |-> p.payload,
                               payloadLen |-> p.payloadLen]
                    /\ drv' = [drv EXCEPT !.alive = ~died]
            ELSE /\ pc' = "idle"
                 /\ UNCHANGED <<delivered, app, tx, sent, req, drv>>
    /\ UNCHANGED <<csVars, codec, stream, pos, fed, txlog, txq, now, txout>>

MainRxNext == MainFeed \/ MainDrainStep

SpecMainRx == MainRxInit /\ [][MainRxNext]_vars

----------------------------------------------------------------------------
(* Chunk-stream RX harness: a driver calls transport_chunk_stream_on_rx_chunk *)
(* with the bytes it receives, numbered 1, 2, 3, ... as they arrive; the     *)
(* application task calls cs_recv.  The two run interleaved in any order.    *)

\* values of rx_chunk_bytes transport_chunk_stream_set_chunk_sizes can leave
RxChunkSizes == {1, CS_RX_CHUNK_MAX_BYTES}

CsRxHarnessInit ==
    /\ codec = CodecIdle
    /\ RxIdleInit
    /\ TxIdleInit
    /\ AppIdleInit
    /\ csrx \in {[CsRxInit EXCEPT !.rx_chunk_bytes = c] : c \in RxChunkSizes}
    /\ cstx = CsTxInit

\* transport_chunk_stream_on_rx_chunk(data, len, timeout_ms) is entered; isr:
\* osKernelGetState() == osKernelRunning && osKernelIsISR()
RxChunkCall ==
    /\ csrx.prod.pc = "idle"
    /\ csrx.prod.calls < MaxRxCalls
    /\ \E len \in 0..MaxRxLen, isr \in BOOLEAN :
          csrx' = [csrx EXCEPT !.prod =
                      [@ EXCEPT !.pc = IF len = 0 THEN "ret" ELSE "loop",
                                !.data = [i \in 1..len |-> csrx.prod.next + i - 1],
                                !.len = len, !.pushed = 0, !.blk = CsNull, !.chunk = 0,
                                !.isr = isr, !.queued = <<>>,
                                !.next = csrx.prod.next + len]]
    /\ UNCHANGED <<cstx, codec, rxVars, txVars, appVars>>

\* "while (pushed < len)": the chunk size, then rx_alloc_blk
RxChunkAlloc ==
    /\ csrx.prod.pc = "loop"
    /\ IF csrx.prod.pushed >= csrx.prod.len
       THEN csrx' = [csrx EXCEPT !.prod.pc = "ret"]
       ELSE \E a \in {rx_alloc_blk(csrx)} :
               csrx' = [a.t EXCEPT !.prod =
                           [@ EXCEPT !.pc = IF a.blk = CsNull THEN "ret" ELSE "push",
                                     !.blk = a.blk,
                                     !.chunk = Min(csrx.prod.len - csrx.prod.pushed,
                                                   csrx.rx_chunk_bytes)]]
    /\ UNCHANGED <<cstx, codec, rxVars, txVars, appVars>>

\* the block is filled, then rx_ready_push; on success pushed moves on and an
\* ISR leaves the loop
RxChunkPush ==
    /\ csrx.prod.pc = "push"
    /\ \E piece \in {SubSeq(csrx.prod.data, csrx.prod.pushed + 1,
                            csrx.prod.pushed + csrx.prod.chunk)} :
       \E r \in {rx_ready_push([csrx EXCEPT !.rx_pool[csrx.prod.blk] =
                                    [@ EXCEPT !.len = csrx.prod.chunk, !.rpos = 0,
                                              !.data = piece]],
                                csrx.prod.blk)} :
          csrx' = [r.t EXCEPT !.prod =
                      IF r.ok = 0 THEN [@ EXCEPT !.pc = "free"]
                      ELSE [@ EXCEPT !.pc = IF csrx.prod.isr THEN "ret" ELSE "loop",
                                     !.pushed = csrx.prod.pushed + csrx.prod.chunk,
                                     !.queued = csrx.prod.queued \o piece]]
    /\ UNCHANGED <<cstx, codec, rxVars, txVars, appVars>>

\* the queue was full: rx_free_blk, break
RxChunkFree ==
    /\ csrx.prod.pc = "free"
    /\ csrx' = [rx_free_blk(csrx, csrx.prod.blk) EXCEPT !.prod.pc = "ret"]
    /\ UNCHANGED <<cstx, codec, rxVars, txVars, appVars>>

\* "return (int)pushed"
RxChunkReturn ==
    /\ csrx.prod.pc = "ret"
    /\ csrx' = [csrx EXCEPT !.prod = [@ EXCEPT !.pc = "idle", !.ret = csrx.prod.pushed,
                                               !.calls = csrx.prod.calls + 1],
                            !.accepted = csrx.accepted
                                \o SubSeq(csrx.prod.data, 1, csrx.prod.pushed)]
    /\ UNCHANGED <<cstx, codec, rxVars, txVars, appVars>>

\* cs_recv(ctx, buf, len) is entered with a buffer of len bytes
RecvCall ==
    /\ csrx.cons.pc = "idle"
    /\ csrx.cons.calls < MaxRecvCalls
    /\ \E len \in 1..MaxRecvLen :
          csrx' = [csrx EXCEPT !.cons = [@ EXCEPT !.pc = "loop", !.len = len,
                                                  !.copied = 0, !.out = <<>>]]
    /\ UNCHANGED <<cstx, codec, rxVars, txVars, appVars>>

\* "while (copied < len)"; with no current block, rx_ready_pop
RecvLoop ==
    /\ csrx.cons.pc = "loop"
    /\ IF csrx.cons.copied >= csrx.cons.len
       THEN csrx' = [csrx EXCEPT !.cons.pc = "ret"]
       ELSE IF csrx.app_rx_cur # CsNull
       THEN csrx' = [csrx EXCEPT !.cons.pc = "copy"]
       ELSE \E r \in {rx_ready_pop(csrx)} :
               csrx' = [r.t EXCEPT !.app_rx_cur = r.blk,
                                   !.cons.pc = IF r.blk = CsNull THEN "ret" ELSE "copy"]
    /\ UNCHANGED <<cstx, codec, rxVars, txVars, appVars>>

\* remain and take, the memcpy out of the current block, rpos and copied
RecvCopy ==
    /\ csrx.cons.pc = "copy"
    /\ \E b \in {csrx.rx_pool[csrx.app_rx_cur]} :
       \E remain \in {IF b.len > b.rpos THEN b.len - b.rpos ELSE 0} :
       \E take \in {Min(remain, csrx.cons.len - csrx.cons.copied)} :
          csrx' = IF remain = 0 THEN [csrx EXCEPT !.cons.pc = "free"]
                  ELSE [csrx EXCEPT
                           !.rx_pool[csrx.app_rx_cur].rpos = b.rpos + take,
                           !.cons = [@ EXCEPT
                               !.pc = IF b.rpos + take >= b.len THEN "free" ELSE "loop",
                               !.copied = csrx.cons.copied + take,
                               !.out = csrx.cons.out
                                   \o SubSeq(b.data, b.rpos + 1, b.rpos + take)]]
    /\ UNCHANGED <<cstx, codec, rxVars, txVars, appVars>>

\* rx_free_blk of the current block, "t->app_rx_cur = NULL"
RecvFree ==
    /\ csrx.cons.pc = "free"
    /\ csrx' = [rx_free_blk(csrx, csrx.app_rx_cur) EXCEPT !.app_rx_cur = CsNull,
                                                          !.cons.pc = "loop"]
    /\ UNCHANGED <<cstx, codec, rxVars, txVars, appVars>>

\* "return copied"
RecvReturn ==
    /\ csrx.cons.pc = "ret"
    /\ csrx' = [csrx EXCEPT !.cons = [@ EXCEPT !.pc = "idle", !.ret = csrx.cons.copied,
                                               !.calls = csrx.cons.calls + 1],
                            !.received = csrx.received \o csrx.cons.out]
    /\ UNCHANGED <<cstx, codec, rxVars, txVars, appVars>>

CsRxNext ==
    \/ RxChunkCall \/ RxChunkAlloc \/ RxChunkPush \/ RxChunkFree \/ RxChunkReturn
    \/ RecvCall \/ RecvLoop \/ RecvCopy \/ RecvFree \/ RecvReturn

SpecCsRx == CsRxHarnessInit /\ [][CsRxNext]_vars

----------------------------------------------------------------------------
(* The same harness at the grain of the single statements of cs_recv: the   *)
(* producer can run between rx_ready_pop and the store to app_rx_cur, and    *)
(* between rx_free_blk and the store of NULL.                                 *)

\* "while (copied < len)"; with no current block, "nb = rx_ready_pop(t)"
RecvPop ==
    /\ csrx.cons.pc = "loop"
    /\ IF csrx.cons.copied >= csrx.cons.len
       THEN csrx' = [csrx EXCEPT !.cons.pc = "ret"]
       ELSE IF csrx.app_rx_cur # CsNull
       THEN csrx' = [csrx EXCEPT !.cons.pc = "copy"]
       ELSE \E r \in {rx_ready_pop(csrx)} :
               csrx' = [r.t EXCEPT !.cons.nb = r.blk,
                                   !.cons.pc = IF r.blk = CsNull THEN "ret" ELSE "setcur"]
    /\ UNCHANGED <<cstx, codec, rxVars, txVars, appVars>>

\* "t->app_rx_cur = nb"
RecvSetCur ==
    /\ csrx.cons.pc = "setcur"
    /\ csrx' = [csrx EXCEPT !.app_rx_cur = csrx.cons.nb, !.cons.nb = CsNull,
                            !.cons.pc = "copy"]
    /\ UNCHANGED <<cstx, codec, rxVars, txVars, appVars>>

\* "rx_free_blk(t, b)"
RecvFreeBlk ==
    /\ csrx.cons.pc = "free"
    /\ csrx' = [rx_free_blk(csrx, csrx.app_rx_cur) EXCEPT !.cons.pc = "clear"]
    /\ UNCHANGED <<cstx, codec, rxVars, txVars, appVars>>

\* "t->app_rx_cur = NULL"
RecvClearCur ==
    /\ csrx.cons.pc = "clear"
    /\ csrx' = [csrx EXCEPT !.app_rx_cur = CsNull, !.cons.pc = "loop"]
    /\ UNCHANGED <<cstx, codec, rxVars, txVars, appVars>>

CsRxStmtNext ==
    \/ RxChunkCall \/ RxChunkAlloc \/ RxChunkPush \/ RxChunkFree \/ RxChunkReturn
    \/ RecvCall \/ RecvPop \/ RecvSetCur \/ RecvCopy \/ RecvFreeBlk \/ RecvClearCur
    \/ RecvReturn

SpecCsRxStmt == CsRxHarnessInit /\ [][CsRxStmtNext]_vars

----------------------------------------------------------------------------
(* Chunk-stream TX harness: the TX queue of the application holds a few      *)
(* frames; the run loop drains it through app_process_tx_buffer with cs_send *)
(* as the transport's send, while ChunkStreamTxThread hands the queued blocks *)
(* to the hardware send function.                                            *)

\* the frames queued for transmission, oldest first; every byte differs
CsTxScenarios ==
    {<< <<1, 2, 3>>, <<4, 5, 6, 7, 8>> >>,
     << <<1, 2, 3, 4, 5>>, <<6, 7, 8>>, <<9>> >>}

\* the TX queue after enqueueTxFrame of each of the frames
RECURSIVE TxQueueOf(_, _)
TxQueueOf(t, frames) ==
    IF frames = <<>> THEN t
    ELSE TxQueueOf(enqueueTxFrame(t, Head(frames), Len(Head(frames))).t, Tail(frames))

CsTxHarnessInit ==
    /\ codec = CodecIdle
    /\ RxIdleInit
    /\ tx \in {TxQueueOf(TxEmpty, sc) : sc \in CsTxScenarios}
    /\ txlog = NoTxOp
    /\ txq = <<>>
    /\ AppIdleInit
    /\ csrx = CsRxInit
    /\ cstx = CsTxInit

\* the while condition of app_process_tx_buffer, in this call of it or in the
\* next cycle's: dequeueTxFrame, and cs_send is entered with the frame
SendDequeue ==
    /\ cstx.snd.pc = "deq"
    /\ TxAvailable(tx) >= 2
    /\ \E d \in {dequeueTxFrame(tx, APP_MAX_FRAME_SIZE)} :
          /\ tx' = d.t
          /\ cstx' = [cstx EXCEPT !.snd =
                         IF d.ret = 0 THEN @
                         ELSE [@ EXCEPT !.pc = "alloc", !.buf = d.out, !.len = d.ret,
                                        !.sent = 0, !.blk = CsNull, !.chunk = 0,
                                        !.enqueued_any = 0]]
    /\ UNCHANGED <<csrx, codec, rxVars, txlog, txq, appVars>>

\* "while (sent < len)": the chunk size, then tx_alloc_blk
CsSendAlloc ==
    /\ cstx.snd.pc = "alloc"
    /\ IF cstx.snd.sent >= cstx.snd.len
       THEN cstx' = [cstx EXCEPT !.snd.pc = "ret"]
       ELSE \E a \in {tx_alloc_blk(cstx)} :
               cstx' = [a.t EXCEPT !.snd =
                           [@ EXCEPT !.pc = IF a.blk = CsNull THEN "ret" ELSE "push",
                                     !.blk = a.blk,
                                     !.chunk = Min(cstx.snd.len - cstx.snd.sent,
                                                   cstx.tx_chunk_bytes)]]
    /\ UNCHANGED <<csrx, codec, rxVars, txVars, appVars>>

\* the block is filled, then tx_send_push
CsSendPush ==
    /\ cstx.snd.pc = "push"
    /\ \E piece \in {SubSeq(cstx.snd.buf, cstx.snd.sent + 1,
                            cstx.snd.sent + cstx.snd.chunk)} :
       \E r \in {tx_send_push([cstx EXCEPT !.tx_pool[cstx.snd.blk] =
                                   [@ EXCEPT !.len = cstx.snd.chunk, !.data = piece]],
                               cstx.snd.blk)} :
          cstx' = [r.t EXCEPT !.snd =
                      IF r.ok = 0 THEN [@ EXCEPT !.pc = "free"]
                      ELSE [@ EXCEPT !.pc = "alloc",
                                     !.sent = cstx.snd.sent + cstx.snd.chunk,
                                     !.enqueued_any = 1],
                              !.pushed = IF r.ok = 0 THEN @ ELSE Append(@, piece)]
    /\ UNCHANGED <<csrx, codec, rxVars, txVars, appVars>>

\* the queue was full: tx_free_blk, break
CsSendFree ==
    /\ cstx.snd.pc = "free"
    /\ cstx' = [tx_free_blk(cstx, cstx.snd.blk) EXCEPT !.snd.pc = "ret"]
    /\ UNCHANGED <<csrx, codec, rxVars, txVars, appVars>>

\* the return of cs_send that leaves the TX thread's flag alone
CsSendReturn_NoFlag ==
    /\ cstx.snd.pc = "ret"
    /\ cstx' = [cstx EXCEPT
                   !.snd.pc = "deq",
                   !.results = Append(cstx.results,
                       [frame |-> cstx.snd.buf, len |-> cstx.snd.len,
                        ret |-> IF cstx.snd.sent > 0 THEN cstx.snd.sent ELSE -1])]
    /\ UNCHANGED <<csrx, codec, rxVars, txVars, appVars>>

\* osThreadFlagsSet when a block was queued (tx_thread_id is set once cs_init has
\* succeeded), then "return (sent > 0) ? sent : -1"; app_process_tx_buffer goes
\* on with the next frame, or breaks when the value is not the frame length
CsSendReturn ==
    /\ cstx.snd.pc = "ret"
    /\ cstx' = [cstx EXCEPT
                   !.snd.pc = "deq",
                   !.flags = IF cstx.snd.enqueued_any = 1 THEN 1 ELSE @,
                   !.results = Append(cstx.results,
                       [frame |-> cstx.snd.buf, len |-> cstx.snd.len,
                        ret |-> IF cstx.snd.sent > 0 THEN cstx.snd.sent ELSE -1])]
    /\ UNCHANGED <<csrx, codec, rxVars, txVars, appVars>>

\* ChunkStreamTxThread: tx_send_pop gives a block, or none and the inner loop
\* ends
TxThreadPop ==
    /\ cstx.thr.pc = "pop"
    /\ \E r \in {tx_send_pop(cstx)} :
          cstx' = [r.t EXCEPT !.thr = IF r.blk = CsNull
                                      THEN [pc |-> "wait", blk |-> CsNull]
                                      ELSE [pc |-> "send", blk |-> r.blk]]
    /\ UNCHANGED <<csrx, codec, rxVars, txVars, appVars>>

\* osThreadFlagsWait(tx_flag_ready, osFlagsWaitAny, osWaitForever) returns once
\* the flag is set, and clears it
TxThreadWait ==
    /\ cstx.thr.pc = "wait"
    /\ cstx.flags # 0
    /\ cstx' = [cstx EXCEPT !.flags = 0, !.thr.pc = "pop"]
    /\ UNCHANGED <<csrx, codec, rxVars, txVars, appVars>>

\* "t->ops->tx_send_block(t->hw, blk->data, blk->len)"
TxThreadSend ==
    /\ cstx.thr.pc = "send"
    /\ cstx' = [cstx EXCEPT
                   !.thr.pc = "free",
                   !.hw = Append(cstx.hw,
                       SubSeq(cstx.tx_pool[cstx.thr.blk].data, 1,
                              cstx.tx_pool[cstx.thr.blk].len))]
    /\ UNCHANGED <<csrx, codec, rxVars, txVars, appVars>>

\* tx_free_blk of the block sent
TxThreadFree ==
    /\ cstx.thr.pc = "free"
    /\ cstx' = [tx_free_blk(cstx, cstx.thr.blk) EXCEPT
                   !.thr = [pc |-> "pop", blk |-> CsNull]]
    /\ UNCHANGED <<csrx, codec, rxVars, txVars, appVars>>

CsTxNext ==
    \/ SendDequeue \/ CsSendAlloc \/ CsSendPush \/ CsSendFree \/ CsSendReturn
    \/ TxThreadPop \/ TxThreadSend \/ TxThreadFree \/ TxThreadWait

SpecCsTx == CsTxHarnessInit /\ [][CsTxNext]_vars

\* the task that calls cs_send and the TX thread are both scheduled: cs_send
\* does not block, and the thread blocks in osThreadFlagsWait only
CsSendStep == SendDequeue \/ CsSendAlloc \/ CsSendPush \/ CsSendFree \/ CsSendReturn

TxThreadStep == TxThreadPop \/ TxThreadSend \/ TxThreadFree \/ TxThreadWait

SpecCsTxFair == SpecCsTx /\ WF_vars(CsSendStep) /\ WF_vars(TxThreadStep)

----------------------------------------------------------------------------
(* Properties of the frame codec, checked under SpecCodec *)

BuildDone == codec.built # NoBuild
ParsedFromBuild == codec.phase = "parsed" /\ codec.built.ret = 0 /\ codec.flip = NoFlip
ParsedFlipped == codec.phase = "parsed" /\ codec.flip # NoFlip

\* C1: round trip.  When payloadLen + 10 <= outCap, buildFrame returns 0 and
\* emits payloadLen + 10 bytes, and parseFrame on exactly those bytes returns 0
\* with the same cmd, seq, payloadLen and (when a payload buffer is given) the
\* same payload bytes.
C1_RoundTrip ==
    /\ (BuildDone /\ codec.payloadLen + 10 <= codec.outCap) =>
          /\ codec.built.ret = 0
          /\ codec.built.len = codec.payloadLen + 10
          /\ Len(codec.built.out) = codec.payloadLen + 10
    /\ ParsedFromBuild =>
          /\ codec.parsed.ret = 0
          /\ codec.parsed.cmd = codec.cmd
          /\ codec.parsed.seq = codec.seq
          /\ codec.parsed.payloadLen = codec.payloadLen
          /\ codec.wantPayload => codec.parsed.payload = codec.payload

C1_Witness ==
    /\ ParsedFromBuild
    /\ codec.wantPayload
    /\ codec.payloadLen = MaxPayload
    /\ codec.parsed.ret = 0
    /\ codec.parsed.payload = codec.payload

\* the byte positions (1-based) of head, length field, payload and checksum in a
\* frame of n bytes
InClaimedField(i, n) == i \in 1..4 \/ i \in 7..(n - 2)

\* C2: corruption detection.  After one bit of the head, the length field, the
\* payload or the checksum of a built frame is flipped, parseFrame returns one of
\* its error codes -1, -2, -3, -4 and never 0.
C2_SingleBitFlipDetected ==
    (ParsedFlipped /\ InClaimedField(codec.flip[1], Len(codec.wire))) =>
        codec.parsed.ret \in {-1, -2, -3, -4}

C2_Witness ==
    /\ ParsedFlipped
    /\ codec.flip[1] \in 7..(Len(codec.wire) - 4)
    /\ codec.parsed.ret = -4

\* C3: parseFrame returns 0 only on inputs with inLen >= 10, lengthField = inLen - 6
\* and payloadLen = lengthField - 4 = inLen - 10.
C3_SuccessImpliesFrameInvariant ==
    (codec.phase = "parsed" /\ codec.parsed.ret = 0) =>
        /\ Len(codec.wire) >= 10
        /\ codec.parsed.lengthField = Len(codec.wire) - 6
        /\ codec.parsed.payloadLen = codec.parsed.lengthField - 4
        /\ codec.parsed.payloadLen = Len(codec.wire) - 10

\* C4: buildFrame returns -1 and stores nothing exactly when payloadLen + 10 >
\* outCap; otherwise it returns 0 and reports payloadLen + 10 bytes.
C4_BuildFailsExactlyWhenTooSmall ==
    BuildDone =>
        IF codec.payloadLen + 10 > codec.outCap
        THEN codec.phase # "crashed" /\ codec.built.ret = -1 /\ codec.built.wrote = 0
        ELSE codec.built.ret = 0 /\ codec.built.len = codec.payloadLen + 10

----------------------------------------------------------------------------
(* Properties of the RX extractor, checked under SpecRx *)

\* the buffered bytes, from head to tail
RxWindow(r) == [i \in 1..RxAvailable(r) |-> r.buf[(r.head + i - 1) % RX_BUFFER_SIZE]]

IsPrefix(p, q) == Len(p) <= Len(q) /\ SubSeq(q, 1, Len(p)) = p

AllFed == pos = Len(Flat(stream))
DrainDone == AllFed /\ pc = "idle"

IsResyncScenario(F) == stream = <<ResyncNoise, F, NoiseByte>>

\* C5: resync.  With the stream FF FF AA 55 <valid frame> FF fed into an empty
\* buffer, the handler is called once, with the valid frame: nothing else is ever
\* delivered, the frame is found at offset 4 (the four noise bytes are skipped one
\* at a time) and it has been delivered when the drain ends.
C5_Resync ==
    \A F \in ValidFrames :
        IsResyncScenario(F) =>
            /\ delivered = <<>> \/ delivered = <<F>>
            /\ delivered = <<F>> => rx.head = 4 + Len(F)
            /\ DrainDone => delivered = <<F>> /\ last.got = FALSE

C5_Witness ==
    /\ IsResyncScenario(CfgFrame)
    /\ DrainDone
    /\ delivered = <<CfgFrame>>
    /\ rx.head = 4 + Len(CfgFrame)

\* C6: no stall.  With a spurious AA 55 pair (oversized or inconsistent length
\* field) followed by a complete valid frame, the drain that follows the last byte
\* has delivered the valid frame.
C6_NoStall ==
    \A S \in SpuriousItems, F \in ValidFrames :
        (stream = <<S, F>> /\ DrainDone) => \E i \in 1..Len(delivered) : delivered[i] = F

\* C7: every extraction that reports success strictly reduces the buffered byte
\* count, so the drain loop ends.
C7_SuccessConsumes ==
    [][Len(delivered') > Len(delivered) => RxAvailable(rx') < RxAvailable(rx)]_vars

\* C8: a header candidate whose length field gives 6 + lengthField above the
\* maximum frame size is never reported as an extracted frame.
C8_OversizeNeverExtracted ==
    last.got => 6 + last.lengthField <= MAX_FRAME_SIZE

\* C9: partial frames.  While the buffered bytes are a proper prefix of a valid
\* frame, a drain step delivers nothing, leaves head where it is and ends the
\* drain; when they are the whole frame, the drain step delivers exactly that
\* frame and empties the buffer.
C9_PartialFrame ==
    [][(pc = "drain" /\ \E F \in ValidFrames : IsPrefix(RxWindow(rx), F)) =>
          IF RxWindow(rx) \in ValidFrames
          THEN /\ delivered' = Append(delivered, RxWindow(rx))
               /\ rx'.head = rx.tail
          ELSE /\ delivered' = delivered
               /\ rx'.head = rx.head
               /\ pc' = "idle"]_vars

\* a frame longer than any chunk has arrived in pieces and has been delivered once
C9_Witness ==
    /\ stream = <<CfgFrame>>
    /\ MaxChunk < Len(CfgFrame)
    /\ DrainDone
    /\ delivered = <<CfgFrame>>
    /\ rx.head = rx.tail

AllValid(items) == \A i \in 1..Len(items) : items[i] \in ValidFrames

\* how many leading items of the stream lie wholly within its first n bytes
RECURSIVE WholeItems(_, _)
WholeItems(items, n) ==
    IF items = <<>> \/ Len(Head(items)) > n THEN 0
    ELSE 1 + WholeItems(Tail(items), n - Len(Head(items)))

\* C10: RX ordering.  When the stream is a sequence of valid frames, the frames
\* delivered so far are the leading frames of the stream, in order and each once;
\* after each drain every frame that has arrived in full has been delivered.
C10_RxFifo ==
    AllValid(stream) =>
        /\ IsPrefix(delivered, stream)
        /\ pc = "idle" => Len(delivered) = WholeItems(stream, pos)

\* three frames, more bytes than the ring holds: the tail has wrapped
C10_Witness ==
    /\ AllValid(stream)
    /\ stream = <<CfgFrame, PingFrame, CfgFrame>>
    /\ Len(Flat(stream)) > RX_BUFFER_SIZE
    /\ DrainDone
    /\ delivered = stream

----------------------------------------------------------------------------
(* Properties of feedRxBuffer, checked under SpecFeed *)

\* C11: a feedRxBuffer call with len bytes of data appends exactly min(len, free)
\* bytes, where free = capacity - 1 - buffered, and returns that count; the buffered
\* bytes afterwards are the bytes buffered before, unchanged, followed by the first
\* min(len, free) bytes of data in order; head is unchanged.
C11_FeedAppendsWhatFits ==
    [][pos' # pos =>
          LET data == SubSeq(Flat(stream), pos + 1, pos')
              free == RX_BUFFER_SIZE - 1 - RxAvailable(rx)
              n == Min(Len(data), free)
          IN  /\ fed'.len = Len(data)
              /\ fed'.ret = n
              /\ RxAvailable(rx') = RxAvailable(rx) + n
              /\ RxWindow(rx') = RxWindow(rx) \o SubSeq(data, 1, n)
              /\ rx'.head = rx.head]_vars

\* a chunk has been cut short, with the buffered bytes lying across the wrap-around
C11_Witness ==
    /\ pc = "drain"
    /\ fed.ret > 0
    /\ fed.ret < fed.len
    /\ rx.tail < rx.head
    /\ RxAvailable(rx) = RX_BUFFER_SIZE - 1

----------------------------------------------------------------------------
(* Properties of the TX queue, checked under SpecTx *)

\* the queued bytes, from head to tail
TxWindow(t) == [i \in 1..TxAvailable(t) |-> t.buf[(t.head + i - 1) % TX_BUFFER_SIZE]]

\* the length prefix at the head of the queue
TxFrontLen(t) == t.buf[t.head] + (256 * t.buf[(t.head + 1) % TX_BUFFER_SIZE])

\* a whole record lies at the head of the queue
TxFrontComplete(t) == TxAvailable(t) >= 2 /\ TxFrontLen(t) <= TxAvailable(t) - 2

EnqueueStep == txlog'.op = "enq" /\ txlog'.n # txlog.n
DequeueStep == txlog'.op = "deq" /\ txlog'.n # txlog.n

\* C12: TX FIFO.  In any interleaving of enqueueTxFrame and dequeueTxFrame calls,
\* the k-th dequeue that reports a frame (non-zero return) reports the length of
\* the k-th frame enqueueTxFrame accepted, and, when its buffer is large enough,
\* exactly that frame's bytes.
C12_TxFifo ==
    [][(DequeueStep /\ txlog'.ret > 0) =>
          /\ txq # <<>>
          /\ txlog'.ret = Head(txq)[1]
          /\ txlog'.maxLen >= txlog'.ret => txlog'.out = TxFrameBuf(Head(txq))]_vars

\* C13: for every frameLen in 0..65535, an enqueueTxFrame call made when the free
\* space is less than frameLen + 2 returns -1 and leaves head, tail and the stored
\* bytes unchanged.
C13_EnqueueFailsAtomically ==
    [][(EnqueueStep /\ txBufferFreeSpace(tx) < txlog'.len + 2) =>
          /\ txlog'.ret = -1
          /\ tx' = tx]_vars

\* C14: when the record at the head of the TX queue has length L greater than
\* maxLen, dequeueTxFrame stores only its first maxLen bytes, returns L and removes
\* the whole record: head advances by L + 2 and the bytes of the records behind it
\* stay queued, unchanged.
C14_OversizeRecordConsumed ==
    [][(DequeueStep /\ TxFrontComplete(tx) /\ TxFrontLen(tx) > txlog'.maxLen) =>
          LET L == TxFrontLen(tx)
              w == TxWindow(tx)
          IN  /\ txlog'.ret = L
              /\ txlog'.out = SubSeq(w, 3, 2 + txlog'.maxLen)
              /\ tx'.head = (tx.head + L + 2) % TX_BUFFER_SIZE
              /\ tx'.tail = tx.tail
              /\ TxWindow(tx') = SubSeq(w, L + 3, Len(w))]_vars

\* a record longer than the caller's buffer has been cut to that buffer and
\* removed, and the record behind it lies intact at the head of the queue
C14_Witness ==
    /\ txlog.op = "deq"
    /\ txlog.ret > txlog.maxLen
    /\ Len(txlog.out) = txlog.maxLen
    /\ txq # <<>>
    /\ TxFrontComplete(tx)
    /\ TxFrontLen(tx) = Head(txq)[1]
    /\ TxFrontLen(tx) > 0
    /\ SubSeq(TxWindow(tx), 3, 2 + TxFrontLen(tx)) = TxFrameBuf(Head(txq))

\* C15: dequeueTxFrame returns 0 exactly when no complete record is queued, and a
\* call that returns 0 leaves head, tail and the stored bytes unchanged; so every
\* record enqueueTxFrame accepted is reported by a non-zero return.
C15_ZeroMeansNoRecord ==
    [][DequeueStep =>
          /\ txlog'.ret = 0 <=> ~TxFrontComplete(tx)
          /\ txlog'.ret = 0 => tx' = tx]_vars

----------------------------------------------------------------------------
(* Properties of the command handling, checked under SpecApp *)

\* app_on_frame has run on a frame
OnFrameStep == req'.n # req.n

\* parseFrame returned 0 and app_on_frame went on to the dispatch
Dispatched == OnFrameStep /\ req'.ret = 0 /\ drv'.alive

\* C16: every frame that parses successfully, whatever its command id, causes
\* exactly one response frame: a valid frame that carries the seq of the request.
\* When the TX queue has room for it the frame is enqueued behind the queued
\* records, and otherwise the queue is left as it was.
C16_OneResponseEchoesSeq ==
    [][Dispatched =>
          /\ Len(sent') = 1
          /\ LET F == sent'[1].frame IN
              /\ parseFrame(F, TRUE).ret = 0
              /\ parseFrame(F, TRUE).seq = req'.seq
              /\ IF txBufferFreeSpace(tx) >= Len(F) + 2
                 THEN /\ sent'[1].queued
                      /\ TxWindow(tx') = TxWindow(tx) \o LE16(Len(F)) \o F
                 ELSE /\ ~sent'[1].queued
                      /\ tx' = tx]_vars

\* an unknown command id has been answered with one Nack under the request's seq,
\* which is not the value of the device's own counter
C16_Witness ==
    /\ req.ret = 0
    /\ req.cmd = 153
    /\ req.seq = ReqSeq
    /\ Len(sent) = 1
    /\ sent[1].queued
    /\ parseFrame(sent[1].frame, TRUE).cmd = CMD_NACK
    /\ parseFrame(sent[1].frame, TRUE).seq = ReqSeq
    /\ app.seq_counter # ReqSeq
    /\ TxAvailable(tx) = Len(sent[1].frame) + 2

\* the response of a dispatched request, as a peer's parseFrame reads it
Response == parseFrame(sent'[1].frame, TRUE)

\* C17: GetStatus is answered with a StatusResponse whose payload is exactly the
\* four bytes [mode, streamStatus, 0, 0] of the device state at the time of the
\* command, and GetStatus changes no device state.
C17_StatusFourBytes ==
    [][(Dispatched /\ req'.cmd = CMD_GET_STATUS) =>
          /\ Len(sent') = 1
          /\ Response.cmd = CMD_STATUS_RESPONSE
          /\ Response.payloadLen = 4
          /\ Response.payload = <<app.mode, app.status, 0, 0>>
          /\ app' = app]_vars

\* entry i (1-based) of a ConfigureStream payload: 6 bytes from offset 1 + 6 * (i - 1)
CfgEntry(payload, i) ==
    [channelId |-> payload[6 * (i - 1) + 2],
     sampleRate |-> payload[6 * (i - 1) + 3] + (256 * payload[6 * (i - 1) + 4])
                    + (65536 * payload[6 * (i - 1) + 5])
                    + (16777216 * payload[6 * (i - 1) + 6]),
     format |-> payload[6 * (i - 1) + 7]]

\* the payload is a count followed by exactly count entries
CfgWellFormed(payload, payload_len) ==
    payload_len >= 1 /\ payload_len = 1 + (6 * payload[1])

\* the entries of the payload that name channel ch
CfgEntriesFor(payload, ch) ==
    {i \in 1..payload[1] : CfgEntry(payload, i).channelId = ch}

\* the setting of channel ch that the payload asks for: its last entry for ch
CfgAsked(payload, ch) ==
    LET e == CfgEntry(payload, CHOOSE i \in CfgEntriesFor(payload, ch) :
                                 \A j \in CfgEntriesFor(payload, ch) : j <= i)
    IN  [enabled |-> IF e.sampleRate > 0 THEN 1 ELSE 0,
         sample_rate |-> e.sampleRate, format |-> e.format]

\* C18: a ConfigureStream whose payload is a count followed by count complete
\* 6-byte entries sets, for each entry whose channelId is below the channel count,
\* that channel's sample rate, format and enabled = (sampleRate > 0); entries
\* with an out-of-range channelId change nothing, nor does anything else change;
\* the answer is an Ack under the request's seq.  The payload
\* 02 00 10270000 01 01 10270000 01 leaves channels 0 and 1 enabled at 10000 Hz,
\* format 1.
C18_ConfigureSetsChannels ==
    [][(Dispatched /\ req'.cmd = CMD_CONFIGURE_STREAM
          /\ CfgWellFormed(req'.payload, req'.payloadLen)) =>
          /\ \A ch \in 0..(MAX_CHANNELS - 1) :
                app'.channels[ch] =
                    IF ch < app.num_channels /\ CfgEntriesFor(req'.payload, ch) # {}
                    THEN CfgAsked(req'.payload, ch)
                    ELSE app.channels[ch]
          /\ app' = [app EXCEPT !.channels = app'.channels]
          /\ Len(sent') = 1
          /\ Response.cmd = CMD_ACK
          /\ Response.seq = req'.seq
          /\ Response.payloadLen = 0
          /\ req'.payload = CfgExample =>
                /\ app'.channels[0] = [enabled |-> 1, sample_rate |-> 10000, format |-> 1]
                /\ app'.channels[1] = [enabled |-> 1, sample_rate |-> 10000, format |-> 1]]_vars

\* the payload with an entry for channel 5, which the device does not have, and an
\* entry that sets channel 1 to 0 Hz, format 2, has been applied and acknowledged
C18_Witness ==
    /\ req.ret = 0
    /\ req.cmd = CMD_CONFIGURE_STREAM
    /\ req.payload = CfgChange
    /\ CfgWellFormed(req.payload, req.payloadLen)
    /\ app.channels[1] = [enabled |-> 0, sample_rate |-> 0, format |-> 2]
    /\ app.channels[0] = DefaultChannel
    /\ app.channels[5] = NoChannel
    /\ Len(sent) = 1
    /\ parseFrame(sent[1].frame, TRUE).cmd = CMD_ACK
    /\ parseFrame(sent[1].frame, TRUE).seq = ReqSeq

\* the payload is empty or shorter than 1 + 6 * count for the count it declares
CfgShortPayload(payload, payload_len) ==
    payload_len = 0 \/ payload_len < 1 + (6 * payload[1])

\* C19: a ConfigureStream whose payload is empty, or shorter than 1 + 6 * count
\* bytes for the count it declares, is answered with a Nack {ParameterError, 0x01}
\* and not with an Ack.
C19_ShortConfigureNacked ==
    [][(Dispatched /\ req'.cmd = CMD_CONFIGURE_STREAM
          /\ CfgShortPayload(req'.payload, req'.payloadLen)) =>
          /\ Len(sent') = 1
          /\ Response.cmd = CMD_NACK
          /\ Response.payload = <<1, 1>>]_vars

\* C20: RequestBufferedData is answered with Ack if and only if, at the time of
\* the command, the mode is Trigger and a trigger has occurred whose burst has not
\* yet completed; in every other state it is answered with Nack {StatusError,
\* 0x02}.  The command changes no device state.
C20_BufferedDataAckIffTriggered ==
    [][(Dispatched /\ req'.cmd = CMD_REQUEST_BUFFERED_DATA) =>
          /\ Len(sent') = 1
          /\ Response.seq = req'.seq
          /\ IF app.mode = MODE_TRIGGER /\ app.trigger.occurred # 0
             THEN Response.cmd = CMD_ACK /\ Response.payloadLen = 0
             ELSE Response.cmd = CMD_NACK /\ Response.payload = <<2, 2>>
          /\ app' = app]_vars

\* the device was put in trigger mode and started, the trigger has fired, and the
\* request made during the burst has been acknowledged
C20_Witness ==
    /\ req.ret = 0
    /\ req.cmd = CMD_REQUEST_BUFFERED_DATA
    /\ drv.pc = "recv"
    /\ app.mode = MODE_TRIGGER
    /\ app.status = STATUS_RUNNING
    /\ app.trigger.occurred = 1
    /\ app.trigger.sending = 1
    /\ Len(sent) = 1
    /\ parseFrame(sent[1].frame, TRUE).cmd = CMD_ACK
    /\ parseFrame(sent[1].frame, TRUE).seq = ReqSeq

\* the command ids app_handle_command has a case for
SupportedCmds ==
    {CMD_PING, CMD_GET_STATUS, CMD_GET_DEVICE_INFO, CMD_SET_MODE_CONTINUOUS,
     CMD_SET_MODE_TRIGGER, CMD_START_STREAM, CMD_STOP_STREAM, CMD_CONFIGURE_STREAM,
     CMD_REQUEST_BUFFERED_DATA}

\* C21: a frame whose command id is not one of the supported commands is answered
\* with Nack {CommandNotSupported, 0x00} under the request's seq, and mode, stream
\* status, channel table and trigger sub-state stay as they were.
C21_UnknownCommandNacked ==
    [][(Dispatched /\ req'.cmd \notin SupportedCmds) =>
          /\ Len(sent') = 1
          /\ Response.cmd = CMD_NACK
          /\ Response.seq = req'.seq
          /\ Response.payload = <<5, 0>>
          /\ app' = app]_vars

\* command id 0x99 has been refused while the device was streaming in trigger mode
C21_Witness ==
    /\ req.ret = 0
    /\ req.cmd = 153
    /\ req.n = 3
    /\ app.mode = MODE_TRIGGER
    /\ app.status = STATUS_RUNNING
    /\ Len(sent) = 1
    /\ parseFrame(sent[1].frame, TRUE).cmd = CMD_NACK
    /\ parseFrame(sent[1].frame, TRUE).payload = <<5, 0>>
    /\ parseFrame(sent[1].frame, TRUE).seq = ReqSeq

\* C22: after SetModeContinuous and after SetModeTrigger, from any reachable
\* state, the mode is the one asked for and the trigger sub-state is reset:
\* occurred and sending are false, armed is true after SetModeTrigger and false
\* after SetModeContinuous; the command is answered with Ack.
C22_ModeSwitchResetsTrigger ==
    [][(Dispatched /\ req'.cmd \in {CMD_SET_MODE_CONTINUOUS, CMD_SET_MODE_TRIGGER}) =>
          /\ app'.mode = (IF req'.cmd = CMD_SET_MODE_TRIGGER THEN MODE_TRIGGER
                          ELSE MODE_CONTINUOUS)
          /\ app'.trigger.armed = (IF req'.cmd = CMD_SET_MODE_TRIGGER THEN 1 ELSE 0)
          /\ app'.trigger.occurred = 0
          /\ app'.trigger.sending = 0
          /\ Len(sent') = 1
          /\ Response.cmd = CMD_ACK
          /\ Response.seq = req'.seq]_vars

-----------------------------------------------------------------------------
(* Properties of the periodic task, checked under SpecStream                *)

\* the commands of the frames the periodic task has sent, oldest first
EmittedCmds == [i \in 1..Len(drv.emitted) |-> drv.emitted[i].cmd]

\* the position of the last EventTriggered before position i of cmds, 0 if none
LastEvent(cmds, i) ==
    LET before == {j \in 1..(i - 1) : cmds[j] = CMD_EVENT_TRIGGERED}
    IN  IF before = {} THEN 0 ELSE CHOOSE j \in before : \A k \in before : k <= j

\* cmds is the beginning of a succession of bursts, each an EventTriggered, N
\* DataPackets with 5 <= N <= 10 and a BufferTransferComplete
BurstShaped(cmds) ==
    \A i \in 1..Len(cmds) :
       LET prev == IF i = 1 THEN CMD_BUFFER_TRANSFER_COMPLETE ELSE cmds[i - 1]
           sinceEvent == i - 1 - LastEvent(cmds, i)
       IN  \/ /\ cmds[i] = CMD_EVENT_TRIGGERED
              /\ prev = CMD_BUFFER_TRANSFER_COMPLETE
           \/ /\ cmds[i] = CMD_DATA_PACKET
              /\ prev \in {CMD_EVENT_TRIGGERED, CMD_DATA_PACKET}
              /\ sinceEvent < 10
           \/ /\ cmds[i] = CMD_BUFFER_TRANSFER_COMPLETE
              /\ prev = CMD_DATA_PACKET
              /\ sinceEvent \in 5..10

\* a tick in which the periodic task sends BufferTransferComplete
CompleteTick ==
    /\ Len(drv'.emitted) > Len(drv.emitted)
    /\ drv'.emitted[Len(drv'.emitted)].cmd = CMD_BUFFER_TRANSFER_COMPLETE

\* C23: in Trigger mode and Running, with no further commands, the periodic
\* task sends one EventTriggered, then N DataPackets with 5 <= N <= 10, then one
\* BufferTransferComplete, in that order, burst after burst; at the tick that
\* sends BufferTransferComplete occurred and sending are false and the next
\* trigger time lies in [now + 10000, now + 15000).
C23_TriggerCycle ==
    [][/\ BurstShaped(EmittedCmds')
       /\ CompleteTick =>
             /\ app'.trigger.occurred = 0
             /\ app'.trigger.sending = 0
             /\ app'.trigger.next_trigger_time >= now + 10000
             /\ app'.trigger.next_trigger_time < now + 15000]_vars

\* a burst of ten DataPackets has been sent and closed
C23_Witness ==
    /\ Len(drv.emitted) = 12
    /\ EmittedCmds[1] = CMD_EVENT_TRIGGERED
    /\ \A i \in 2..11 : EmittedCmds[i] = CMD_DATA_PACKET
    /\ EmittedCmds[12] = CMD_BUFFER_TRANSFER_COMPLETE
    /\ app.trigger.occurred = 0
    /\ app.trigger.sending = 0
    /\ app.trigger.armed = 1

-----------------------------------------------------------------------------
(* Properties of the streaming pace, checked under SpecApp                  *)

\* a step of the periodic task
TickStep == drv.pc = "recv" /\ drv'.pc = "tx"

\* the DataPackets among the frames the step sends
DataSent == {i \in 1..Len(sent') : sent'[i].frame[5] = CMD_DATA_PACKET}

\* in Continuous+Running a tick sends one DataPacket, and nothing else, when
\* now - lastDataSendTime >= 10, and no frame otherwise
PaceOnePerTick ==
    (TickStep /\ app.mode = MODE_CONTINUOUS /\ app.status = STATUS_RUNNING) =>
       IF now - app.last_data_send_time >= 10
       THEN Len(sent') = 1 /\ DataSent = {1} /\ app'.last_data_send_time = now
       ELSE sent' = <<>> /\ app'.last_data_send_time = app.last_data_send_time

\* while Stopped a tick sends no frame and changes no mode, channel or trigger
\* state
StoppedTickIdle ==
    (TickStep /\ app.status = STATUS_STOPPED) =>
       /\ sent' = <<>>
       /\ tx' = tx
       /\ app'.mode = app.mode
       /\ app'.status = app.status
       /\ app'.num_channels = app.num_channels
       /\ app'.channels = app.channels
       /\ app'.trigger = app.trigger
       /\ app'.seq_counter = app.seq_counter

\* a Continuous+Running tick that sends a DataPacket after an earlier one
NextContinuousPacket ==
    /\ TickStep
    /\ app.mode = MODE_CONTINUOUS
    /\ app.status = STATUS_RUNNING
    /\ DataSent # {}
    /\ drv.dataAt >= 0

\* C24 as stated: one DataPacket per due tick and none otherwise in
\* Continuous+Running, any two consecutive DataPackets at least 10 ms apart, and
\* a tick while Stopped sends nothing and changes no mode, channel or trigger
\* state.
C24_StreamingPace ==
    [][/\ PaceOnePerTick
       /\ StoppedTickIdle
       /\ NextContinuousPacket => now - drv.dataAt >= 10]_vars

\* C24 amended: the same, with the 10 ms between consecutive DataPackets claimed
\* only when no StartStream was handled between the two.
C24_PaceBetweenStarts ==
    [][/\ PaceOnePerTick
       /\ StoppedTickIdle
       /\ (NextContinuousPacket /\ ~drv.restarted) => now - drv.dataAt >= 10]_vars

\* the second DataPacket of a continuous stream has just been sent, 5000 ms
\* after the first, with no StartStream in between
C24_Witness ==
    /\ drv.pc = "tx"
    /\ app.mode = MODE_CONTINUOUS
    /\ app.status = STATUS_RUNNING
    /\ Len(drv.emitted) = 2
    /\ \A i \in 1..2 : drv.emitted[i].cmd = CMD_DATA_PACKET
    /\ drv.dataAt = now
    /\ now = 10000
    /\ ~drv.restarted
    /\ req.n = 2

-----------------------------------------------------------------------------
(* Properties of the failure paths, checked under SpecApp                   *)

\* a SetModeTrigger request with a wrong head, a wrong tail, a length field that
\* disagrees with the frame size, and a wrong checksum
RejectedFrames ==
    {[Request(CMD_SET_MODE_TRIGGER, <<>>) EXCEPT ![2] = 0],
     [Request(CMD_SET_MODE_TRIGGER, <<>>) EXCEPT ![10] = 0],
     [Request(CMD_SET_MODE_TRIGGER, <<>>) EXCEPT ![3] = 5],
     BadCrcFrame}

\* C25: a frame handed to app_on_frame that parseFrame rejects (header, tail,
\* length or checksum mismatch) is dropped: no frame is enqueued for
\* transmission, and mode, stream status, channel table, trigger sub-state and
\* sequence counter (the whole of g_app, and the TX queue) are unchanged.
C25_RejectedFrameDropped ==
    [][/\ (OnFrameStep /\ req'.ret # 0) =>
             /\ sent' = <<>>
             /\ tx' = tx
             /\ app' = app
       /\ \A f \in RejectedFrames :
             \E r \in {app_on_frame(app, tx, f, 0, FALSE)} :
                /\ r.p.ret \in {-1, -2, -3, -4}
                /\ r.log = <<>>
                /\ r.t = tx
                /\ r.a = app]_vars

\* a frame with a wrong checksum has been handed over in trigger mode while
\* streaming
C25_Witness ==
    /\ req.n = 3
    /\ req.ret = -4
    /\ drv.alive
    /\ sent = <<>>
    /\ app.mode = MODE_TRIGGER
    /\ app.status = STATUS_RUNNING

\* the frames of a send log that the TX queue refused
Dropped(log) == {i \in 1..Len(log) : ~log[i].queued}

\* the TX queue t after the accepted frames of a send log, in order
RECURSIVE EnqueueAccepted(_, _)
EnqueueAccepted(t, log) ==
    IF log = <<>> THEN t
    ELSE EnqueueAccepted(
             IF Head(log).queued
             THEN enqueueTxFrame(t, Head(log).frame, Len(Head(log).frame)).t
             ELSE t,
             Tail(log))

\* a step of app_on_frame or of the periodic task in which the TX queue refused
\* a frame
DropStep == (OnFrameStep \/ TickStep) /\ Dropped(sent') # {}

\* a tick in Trigger mode that sends a DataPacket of a burst
BurstDataTick ==
    /\ TickStep
    /\ app.status = STATUS_RUNNING
    /\ app.mode = MODE_TRIGGER
    /\ DataSent # {}

\* C26: when the TX queue has no room for an outgoing frame the frame is
\* dropped: the queue holds what it held plus the frames of the step it took,
\* the loop goes on, the device state is the one the command or the tick
\* produces when the queue has room, and for the frames of the periodic task the
\* sequence counter moves by one per frame and packets_sent by one per
\* DataPacket of a burst.
C26_QueueFullDrops ==
    [][DropStep =>
          /\ tx' = EnqueueAccepted(tx, sent')
          /\ drv'.alive
          /\ drv'.pc \in {"recv", "tx"}
          /\ OnFrameStep =>
                \E rnd \in TimeRands :
                   app' = app_on_frame(app, TxEmpty, Head(drv.script), rnd, FALSE).a
          /\ TickStep =>
                /\ app'.seq_counter = (app.seq_counter + Len(sent')) % 256
                /\ \E rb \in BurstRands, rn \in TimeRands :
                      app' = app_periodic_task(app, TxEmpty, now, rb, rn, 0).a
          /\ BurstDataTick =>
                /\ app'.trigger.packets_sent =
                      (IF TriggerDue(app, now) THEN 0 ELSE app.trigger.packets_sent) + 1
                /\ app'.last_data_send_time = now]_vars

\* the queue is full of the DeviceInfoResponse; the Ack of StartStream was
\* dropped and the stream runs; the first DataPacket was dropped and the
\* sequence counter has moved
C26_Witness ==
    /\ drv.pc = "tx"
    /\ req.n = 2
    /\ req.cmd = CMD_START_STREAM
    /\ app.status = STATUS_RUNNING
    /\ Len(sent) = 1
    /\ sent[1].frame[5] = CMD_DATA_PACKET
    /\ ~sent[1].queued
    /\ app.seq_counter = 1
    /\ app.last_data_send_time = now
    /\ TxAvailable(tx) = 46

\* a step of app_process_tx_buffer in which transport send returned -1
SendErrorStep == drv.pc = "tx" /\ drv'.pc # "tx" /\ drv'.sendErr

\* a step in which transport recv returned -1
RecvErrorStep == drv.pc = "top" /\ drv'.pc = "exit"

\* C27: a transport error is fatal to the session: when recv or send of the
\* transport reports -1 the run loop terminates, with no further receive, tick
\* or drain, and the transport is cleaned up.
C27_TransportErrorFatal ==
    [][/\ (RecvErrorStep \/ SendErrorStep) => drv'.pc = "exit"
       /\ drv.pc = "exit" => (drv'.pc = "done" /\ tx' = tx /\ sent' = sent /\ req' = req)
       /\ drv.pc = "done" => UNCHANGED vars]_vars

-----------------------------------------------------------------------------
(* Properties of the chunk-stream RX path, checked under SpecCsRx           *)

\* the blocks of the ready queue, oldest first
RxReadyBlocks ==
    [k \in 1..((csrx.rx_q_tail + CS_RX_READY_Q_LEN - csrx.rx_q_head) % CS_RX_READY_Q_LEN)
       |-> csrx.rx_ready_q[(csrx.rx_q_head + k - 1) % CS_RX_READY_Q_LEN]]

\* the bytes of block blk that cs_recv has not copied yet
RxUnread(blk) ==
    SubSeq(csrx.rx_pool[blk].data, csrx.rx_pool[blk].rpos + 1, csrx.rx_pool[blk].len)

\* the queued bytes no cs_recv call has returned yet, in the order cs_recv will
\* return them: those of the call in progress, the rest of the current block,
\* the blocks of the ready queue
RxPending ==
    (IF csrx.cons.pc = "idle" THEN <<>> ELSE csrx.cons.out)
    \o (IF csrx.app_rx_cur = CsNull THEN <<>> ELSE RxUnread(csrx.app_rx_cur))
    \o Flat([k \in 1..Len(RxReadyBlocks) |-> RxUnread(RxReadyBlocks[k])])

\* the accepted prefixes of the producer calls, with the bytes the call in
\* progress has queued
RxQueuedSoFar ==
    csrx.accepted \o (IF csrx.prod.pc = "idle" THEN <<>> ELSE csrx.prod.queued)

\* a step of the producer inside a call is possible
ProducerStep == RxChunkAlloc \/ RxChunkPush \/ RxChunkFree \/ RxChunkReturn

\* the producer call returns
ProducerReturns == csrx.prod.pc = "ret" /\ csrx'.prod.pc = "idle"

-----------------------------------------------------------------------------
(* Properties of the chunk-stream TX path, checked under SpecCsTx           *)

\* the blocks of the send queue, oldest first
TxSendBlocks ==
    [k \in 1..((cstx.tx_q_tail + CS_TX_SEND_Q_LEN - cstx.tx_q_head) % CS_TX_SEND_Q_LEN)
       |-> cstx.tx_send_q[(cstx.tx_q_head + k - 1) % CS_TX_SEND_Q_LEN]]

TxBlockBytes(blk) == SubSeq(cstx.tx_pool[blk].data, 1, cstx.tx_pool[blk].len)

\* the bytes handed to the hardware send function, followed by those it will
\* be handed: the block the thread has popped, then the send queue
TxHanded ==
    Flat(cstx.hw)
    \o (IF cstx.thr.pc = "send" THEN TxBlockBytes(cstx.thr.blk) ELSE <<>>)
    \o Flat([k \in 1..Len(TxSendBlocks) |-> TxBlockBytes(TxSendBlocks[k])])

\* the frames app_process_tx_buffer counts as sent, one after the other
TxWholeFrames ==
    Flat([k \in 1..Len(cstx.results) |->
            IF cstx.results[k].ret = cstx.results[k].len THEN cstx.results[k].frame
            ELSE <<>>])

\* cs_send returns to app_process_tx_buffer
CsSendReturns == cstx.snd.pc = "ret" /\ cstx'.snd.pc = "deq"

-----------------------------------------------------------------------------
(* Properties of the sequence counter, checked under SpecApp                *)

\* the seq of every frame of the periodic task but the first exceeds that of the
\* frame before it by step(previous seq)
SeqChain(step(_)) ==
    \A i \in 2..Len(drv.emitted) : drv.emitted[i].seq = step(drv.emitted[i - 1].seq)

\* the frames a tick sends start at the counter
StartsAtCounter ==
    (TickStep /\ sent' # <<>>) => sent'[1].frame[6] = app.seq_counter

\* C30 as stated: each self-initiated frame carries a seq exactly one greater
\* than the self-initiated frame before it, the counter never decreases over
\* ticks and commands, and a response leaves it as it is.
C30_SeqMonotonic ==
    [][/\ SeqChain(LAMBDA q : q + 1)'
       /\ StartsAtCounter
       /\ app'.seq_counter >= app.seq_counter
       /\ OnFrameStep => app'.seq_counter = app.seq_counter]_vars

\* C30 amended: the seq is one greater modulo 256 (0 follows 255), the counter
\* moves by one modulo 256 per self-initiated frame and by nothing else.
C30_SeqIncrementsMod256 ==
    [][/\ SeqChain(LAMBDA q : (q + 1) % 256)'
       /\ StartsAtCounter
       /\ app'.seq_counter \in 0..255
       /\ TickStep => app'.seq_counter = (app.seq_counter + Len(sent')) % 256
       /\ ~TickStep => app'.seq_counter = app.seq_counter]_vars

\* the frames 254, 255 and 0 have been sent, and a Ping answered in between
C30_Witness ==
    /\ Len(drv.emitted) = 3
    /\ drv.emitted[1].seq = 254
    /\ drv.emitted[2].seq = 255
    /\ drv.emitted[3].seq = 0
    /\ app.seq_counter = 1
    /\ req.n = 1
    /\ req.cmd = CMD_PING

-----------------------------------------------------------------------------
(* Ring invariant of the RX buffer and the TX queue                         *)

RingIndicesInRange ==
    /\ rx.head \in 0..(RX_BUFFER_SIZE - 1)
    /\ rx.tail \in 0..(RX_BUFFER_SIZE - 1)
    /\ tx.head \in 0..(TX_BUFFER_SIZE - 1)
    /\ tx.tail \in 0..(TX_BUFFER_SIZE - 1)

\* the RX count follows the calls: a feed adds the bytes it accepted and leaves
\* head, an extraction only removes bytes and leaves tail
RxCountFollows ==
    /\ pos' # pos => /\ RxAvailable(rx') = RxAvailable(rx) + fed'.ret
                     /\ rx'.head = rx.head
    /\ pos' = pos => /\ RxAvailable(rx') <= RxAvailable(rx)
                     /\ rx'.tail = rx.tail

\* the TX count follows the calls: an accepted enqueue adds the record (length
\* prefix and frame) and leaves head, a refused one changes nothing, a dequeue
\* only removes bytes and leaves tail
TxCountFollows ==
    /\ (EnqueueStep /\ txlog'.ret = 0) =>
          /\ TxAvailable(tx') = TxAvailable(tx) + txlog'.len + 2
          /\ tx'.head = tx.head
    /\ (EnqueueStep /\ txlog'.ret # 0) => tx' = tx
    /\ DequeueStep => /\ TxAvailable(tx') <= TxAvailable(tx)
                      /\ tx'.tail = tx.tail

\* the RX half of the ring invariant, for the receive path
RxRingInvariant == [][RingIndicesInRange' /\ RxCountFollows]_vars

\* C31: ring invariant.  After any sequence of feedRxBuffer and extraction calls
\* on the RX buffer and of enqueueTxFrame and dequeueTxFrame calls on the TX
\* queue, head and tail lie in 0..capacity-1 and (tail - head) mod capacity is
\* the number of bytes put in and not yet taken out, at most capacity - 1: so
\* head = tail exactly when the buffer is empty, and a buffer that has just
\* accepted bytes never shows head = tail.
C31_RingInvariant ==
    [][/\ RingIndicesInRange'
       /\ RxCountFollows
       /\ TxCountFollows
       /\ (EnqueueStep /\ txlog'.ret = 0) => tx'.head # tx'.tail]_vars

-----------------------------------------------------------------------------
(* Noise in the RX buffer, checked under SpecFeed                           *)

\* no AA 55 pair among the bytes w
HeaderFree(w) ==
    \A i \in 1..(Len(w) - 1) : ~(w[i] = FRAME_HEAD_0 /\ w[i + 1] = FRAME_HEAD_1)

\* after a drain the buffer holds no header-free bytes but the last few the scan
\* did not reach (it stops with fewer than MIN_FRAME_LEN bytes left)
ScannedNoiseReleased ==
    (pc = "idle" /\ HeaderFree(RxWindow(rx))) => RxAvailable(rx) < MIN_FRAME_LEN

\* a valid frame that follows header-free noise has been delivered when the drain
\* after its last byte ends
FrameAfterNoiseDelivered ==
    \A F \in ValidFrames :
        (stream = <<FillNoise, FillNoise, FillNoise, F>> /\ DrainDone) =>
            /\ fed.ret = fed.len
            /\ \E i \in 1..Len(delivered) : delivered[i] = F

\* C32: noise does not stay in the RX buffer.  The bytes a drain has scanned and
\* rejected as noise are released, so however much header-free noise has been
\* fed, with a drain after each feed, a valid frame that follows is accepted in
\* full by feedRxBuffer and delivered to the handler.
C32_NoiseReleased ==
    /\ ScannedNoiseReleased
    /\ FrameAfterNoiseDelivered

-----------------------------------------------------------------------------
(* Bad frame followed by a valid one, checked under SpecMainRx              *)

\* the length field of a frame
LengthFieldOf(f) == f[3] + (256 * f[4])

\* the frame the handler was called on last
LastDelivered == delivered[Len(delivered)]

\* C33: scanning resumes after a bad frame.  When the RX buffer holds, from head,
\* a frame with intact header and length field but a wrong checksum or tail,
\* immediately followed by a valid frame, the drain hands the bad frame to the
\* handler first, consuming exactly 6 + lengthField bytes: parseFrame rejects
\* it, nothing is sent and the device state is unchanged, and the drain goes on.
\* Its next step hands over the valid frame, which is dispatched (the command
\* takes effect) and answered with one response under the request's seq.
C33_ScanResumesAfterBadFrame ==
    [][(pc = "drain" /\ drv.alive) =>
          /\ \A B \in BadFrames, F \in GoodRequests :
                IsPrefix(B \o F, RxWindow(rx)) =>
                   /\ delivered' = Append(delivered, B)
                   /\ rx'.head = (rx.head + 6 + LengthFieldOf(B)) % RX_BUFFER_SIZE
                   /\ RxWindow(rx') = SubSeq(RxWindow(rx), 7 + LengthFieldOf(B),
                                             RxAvailable(rx))
                   /\ req'.ret # 0
                   /\ sent' = <<>>
                   /\ app' = app
                   /\ tx' = tx
                   /\ pc' = "drain"
          /\ \A F \in GoodRequests :
                (delivered # <<>> /\ LastDelivered \in BadFrames
                 /\ IsPrefix(F, RxWindow(rx))) =>
                   /\ delivered' = Append(delivered, F)
                   /\ rx'.head = (rx.head + Len(F)) % RX_BUFFER_SIZE
                   /\ req'.ret = 0
                   /\ req'.cmd = F[5]
                   /\ F[5] = CMD_SET_MODE_TRIGGER => app'.mode = MODE_TRIGGER
                   /\ F[5] = CMD_START_STREAM => app'.status = STATUS_RUNNING
                   /\ Len(sent') = 1
                   /\ parseFrame(sent'[1].frame, TRUE).ret = 0
                   /\ parseFrame(sent'[1].frame, TRUE).seq = ReqSeq
                   /\ parseFrame(sent'[1].frame, TRUE).cmd
                          = (IF F[5] = CMD_PING THEN CMD_PONG ELSE CMD_ACK)]_vars

\* both frames came in one chunk and one drain: the frame with a wrong tail was
\* dropped, SetModeTrigger behind it was carried out and acknowledged, and the
\* drain has ended with the buffer empty
C33_Witness ==
    /\ stream = <<[Request(CMD_START_STREAM, <<>>) EXCEPT ![10] = 0],
                  Request(CMD_SET_MODE_TRIGGER, <<>>)>>
    /\ fed.len = Len(Flat(stream))
    /\ fed.ret = fed.len
    /\ pc = "idle"
    /\ delivered = stream
    /\ req.n = 2
    /\ app.mode = MODE_TRIGGER
    /\ app.status = STATUS_STOPPED
    /\ Len(sent) = 1
    /\ sent[1].queued
    /\ parseFrame(sent[1].frame, TRUE).cmd = CMD_ACK
    /\ TxAvailable(tx) = Len(sent[1].frame) + 2
    /\ rx.head = rx.tail

-----------------------------------------------------------------------------
(* Trigger sub-state                                                         *)

\* the run loop is at work: app_cleanup has not run
InRunLoop == drv.pc # "done"

TriggerSubStateOk(a) ==
    /\ a.trigger.armed # 0 <=> a.mode = MODE_TRIGGER
    /\ a.trigger.sending # 0 => a.trigger.occurred # 0
    /\ a.trigger.sending # 0 => a.status = STATUS_RUNNING
    /\ 0 <= a.trigger.packets_sent
    /\ a.trigger.packets_sent <= a.trigger.packets_to_send
    /\ a.trigger.sending # 0 => a.trigger.packets_to_send \in 5..10

\* C34: trigger sub-state invariant.  In every state the device reaches by
\* commands and ticks, armed is set exactly when the mode is Trigger, sending
\* implies occurred, sending implies that the stream is Running, packets_sent
\* lies between 0 and packets_to_send, and while sending is set packets_to_send
\* lies between 5 and 10.
C34_TriggerSubState == InRunLoop => TriggerSubStateOk(app)

\* a burst was cut by StopStream: one packet of ten is out, occurred is still
\* set, sending is not, and the stream is stopped
C34_Witness ==
    /\ InRunLoop
    /\ req.cmd = CMD_STOP_STREAM
    /\ req.n = 3
    /\ app.mode = MODE_TRIGGER
    /\ app.status = STATUS_STOPPED
    /\ app.trigger.occurred = 1
    /\ app.trigger.sending = 0
    /\ app.trigger.packets_sent = 1
    /\ app.trigger.packets_to_send = 10

-----------------------------------------------------------------------------
(* Trigger liveness, checked under SpecLongRun                              *)

\* the most cycles from any state to the next EventTriggered when the clock
\* advances by five seconds per cycle: ten DataPackets, BufferTransferComplete,
\* and three cycles to pass the 10000..14999 ms to the next trigger
BurstHorizon == 14

TriggerRunning == app.mode = MODE_TRIGGER /\ app.status = STATUS_RUNNING

\* the periodic task of this cycle has sent EventTriggered
EventFired ==
    /\ drv.pc = "tx"
    /\ \E i \in 1..Len(sent) : sent[i].frame[5] = CMD_EVENT_TRIGGERED

\* no frame of the peer is left to arrive, and the run is followed for long
\* enough from here
NoFurtherCommand == drv.script = <<>> /\ drv.loops + BurstHorizon <= drv.limit

\* C35: trigger liveness.  From every state in which the mode is Trigger and the
\* stream is Running, if no further command arrives and the ticks keep advancing
\* the time, an EventTriggered frame is eventually emitted.
C35_TriggerEventuallyFires ==
    (TriggerRunning /\ NoFurtherCommand) ~> EventFired

\* the same for the states in which the trigger can fire or a burst is going on
TriggerFiresUnlessBlocked ==
    (TriggerRunning /\ NoFurtherCommand
     /\ (app.trigger.occurred = 0 \/ app.trigger.sending # 0)) ~> EventFired

-----------------------------------------------------------------------------
(* Burst bracketing, checked under SpecLongRun                              *)

BurstMarks == {CMD_EVENT_TRIGGERED, CMD_BUFFER_TRANSFER_COMPLETE}

\* the position of the last EventTriggered or BufferTransferComplete before
\* position i of cmds, 0 if none
LastMark(cmds, i) ==
    LET before == {j \in 1..(i - 1) : cmds[j] \in BurstMarks}
    IN  IF before = {} THEN 0 ELSE CHOOSE j \in before : \A k \in before : k <= j

\* EventTriggered and BufferTransferComplete alternate in cmds, EventTriggered
\* first
Bracketed(cmds) ==
    \A i \in 1..Len(cmds) :
       cmds[i] \in BurstMarks =>
          LET m == LastMark(cmds, i)
          IN  IF cmds[i] = CMD_EVENT_TRIGGERED
              THEN m = 0 \/ cmds[m] = CMD_BUFFER_TRANSFER_COMPLETE
              ELSE m # 0 /\ cmds[m] = CMD_EVENT_TRIGGERED

\* C36: burst bracketing.  Under any interleaving of commands and ticks the
\* EventTriggered and BufferTransferComplete frames the device sends alternate
\* strictly, starting with EventTriggered: exactly one BufferTransferComplete
\* between two EventTriggered frames, and no BufferTransferComplete without an
\* EventTriggered still open before it.
C36_BurstBracketing == Bracketed(EmittedCmds)

\* no BufferTransferComplete comes without an open EventTriggered before it
CompleteHasEvent ==
    \A i \in 1..Len(EmittedCmds) :
       EmittedCmds[i] = CMD_BUFFER_TRANSFER_COMPLETE =>
          /\ LastMark(EmittedCmds, i) # 0
          /\ EmittedCmds[LastMark(EmittedCmds, i)] = CMD_EVENT_TRIGGERED

-----------------------------------------------------------------------------
(* Trigger scheduling by SetModeTrigger, checked under SpecApp              *)

\* app_on_frame has dispatched a SetModeTrigger request
ModeTriggerStep == Dispatched /\ req'.cmd = CMD_SET_MODE_TRIGGER

\* the periodic task sends EventTriggered in this step
EventStep ==
    /\ TickStep
    /\ \E i \in 1..Len(sent') : sent'[i].frame[5] = CMD_EVENT_TRIGGERED

\* C37: SetModeTrigger handled when the clock reads t sets the next trigger time
\* 5 to 10 seconds after t, and no EventTriggered is sent at a tick with
\* now < t + 5000, however long the device had been running before the command.
C37_TriggerFiveSecondsAfterCommand ==
    [][/\ ModeTriggerStep =>
             /\ app'.trigger.next_trigger_time >= now + 5000
             /\ app'.trigger.next_trigger_time <= now + 10000
       /\ (EventStep /\ drv.modeAt >= 0) => now >= drv.modeAt + 5000]_vars

\* what the handler does: the time is counted from start_time, the clock value
\* of the first tick (0 before it)
TriggerScheduledFromStart ==
    [][ModeTriggerStep =>
          /\ app'.trigger.next_trigger_time >= app.start_time + 5000
          /\ app'.trigger.next_trigger_time < app.start_time + 10000]_vars

-----------------------------------------------------------------------------
(* Conservation of the RX pool blocks, checked under SpecCsRxStmt            *)

\* how often block b is on the free stack, and on the ready queue
OnFreeStack(b) ==
    Cardinality({i \in 0..(csrx.rx_free_top - 1) : csrx.rx_free_stack[i] = b})

OnReadyQueue(b) ==
    Cardinality({k \in 1..Len(RxReadyBlocks) : RxReadyBlocks[k] = b})

\* the producer holds b from rx_alloc_blk to rx_ready_push, or to rx_free_blk
\* when the push fails
ProducerHolds(b) == csrx.prod.pc \in {"push", "free"} /\ csrx.prod.blk = b

\* the consumer holds b from rx_ready_pop to rx_free_blk: in nb, then as the
\* current block
ConsumerHolds(b) ==
    \/ csrx.cons.pc = "setcur" /\ csrx.cons.nb = b
    \/ csrx.cons.pc # "clear" /\ csrx.app_rx_cur = b

Holders(b) ==
    OnFreeStack(b) + OnReadyQueue(b)
    + (IF ProducerHolds(b) THEN 1 ELSE 0) + (IF ConsumerHolds(b) THEN 1 ELSE 0)

RxIndicesInBounds ==
    /\ csrx.rx_free_top \in 0..CS_RX_POOL_COUNT
    /\ csrx.rx_q_head \in 0..(CS_RX_READY_Q_LEN - 1)
    /\ csrx.rx_q_tail \in 0..(CS_RX_READY_Q_LEN - 1)
    /\ \A i \in 0..(csrx.rx_free_top - 1) :
          csrx.rx_free_stack[i] \in 0..(CS_RX_POOL_COUNT - 1)
    /\ \A k \in 1..Len(RxReadyBlocks) : RxReadyBlocks[k] \in 0..(CS_RX_POOL_COUNT - 1)

\* C38: under every interleaving of transport_chunk_stream_on_rx_chunk with
\* cs_recv each RX pool block is in exactly one place: on the free stack, on the
\* ready queue, held by the producer between alloc and push, or held by the
\* consumer as its current block; so no block is allocated twice, freed twice
\* or leaked, in_use is clear exactly for the blocks of the free stack, and the
\* free-stack and ready-queue indices stay within bounds.
C38_BlockConservation ==
    /\ RxIndicesInBounds
    /\ \A b \in 0..(CS_RX_POOL_COUNT - 1) :
          /\ Holders(b) = 1
          /\ csrx.rx_pool[b].in_use = 0 <=> OnFreeStack(b) = 1

\* cs_recv has freed its current block and not yet stored NULL in app_rx_cur;
\* meanwhile the producer has allocated that very block and is about to queue it
C38_Witness ==
    /\ csrx.cons.pc = "clear"
    /\ csrx.prod.pc = "push"
    /\ csrx.prod.blk = csrx.app_rx_cur
    /\ csrx.rx_q_head # csrx.rx_q_tail

-----------------------------------------------------------------------------
(* Liveness of the chunk-stream TX path, checked under SpecCsTxFair          *)

\* the most blocks cs_send can queue from the frames of a scenario
MaxTxBlocks == 6

\* block k of the push order has been handed to tx_send_block and the thread
\* has given it back with tx_free_blk
BlockSentAndFreed(k) ==
    /\ Len(cstx.hw) >= k
    /\ cstx.hw[k] = cstx.pushed[k]
    /\ Len(cstx.hw) = k => cstx.thr.pc \in {"pop", "wait"}

\* what was handed to tx_send_block is the start of what was pushed
HandedInPushOrder ==
    /\ Len(cstx.hw) <= Len(cstx.pushed)
    /\ cstx.hw = SubSeq(cstx.pushed, 1, Len(cstx.hw))

\* the TX thread sleeps in osThreadFlagsWait with a block queued, no flag set,
\* and no cs_send in progress that will set it
LostWakeup ==
    /\ cstx.thr.pc = "wait"
    /\ cstx.tx_q_head # cstx.tx_q_tail
    /\ cstx.flags = 0
    /\ ~(cstx.snd.pc \in {"alloc", "push", "free", "ret"} /\ cstx.snd.enqueued_any = 1)

\* no block is queued or with the thread: every block is on the free stack
TxAllFree ==
    /\ cstx.tx_free_top = CS_TX_POOL_COUNT
    /\ \A b \in 0..(CS_TX_POOL_COUNT - 1) : cstx.tx_pool[b].in_use = 0

PushedBeforeFlag ==
    /\ cstx.thr.pc = "wait"
    /\ cstx.flags = 0
    /\ cstx.tx_q_head # cstx.tx_q_tail
    /\ cstx.snd.pc \in {"alloc", "push", "free", "ret"}

-----------------------------------------------------------------------------
(* Properties of the TX drain, checked under SpecApp                         *)

\* the records in the bytes w of the TX queue, oldest first: a two-byte length,
\* low byte first, then that many bytes
RECURSIVE RecordsOf(_)
RecordsOf(w) ==
    IF Len(w) < 2 THEN <<>>
    ELSE IF w[1] + (256 * w[2]) > Len(w) - 2 THEN <<>>
    ELSE <<SubSeq(w, 3, 2 + w[1] + (256 * w[2]))>>
         \o RecordsOf(SubSeq(w, 3 + w[1] + (256 * w[2]), Len(w)))

QueuedRecords(t) == RecordsOf(TxWindow(t))

\* a call of app_process_tx_buffer
TxDrainCall == drv.pc = "tx" /\ drv'.pc = "top"

\* the k-th send of the call carried the k-th queued record, whole
SendsAreFrontRecords(before, out) ==
    /\ Len(out) <= Len(before)
    /\ \A k \in 1..Len(out) : out[k].frame = before[k] /\ out[k].len = Len(before[k])

\* a send that accepts another count is the last of the call
FailureStopsDrain(out) == \A k \in 1..Len(out) : ~out[k].ok => k = Len(out)

\* C40: app_process_tx_buffer passes each queued record to transport send in a
\* single call carrying exactly that record's bytes, in FIFO order; when every
\* send accepts the full length the TX queue is empty on return; when a send
\* accepts a different count the drain stops, that record is lost, and the
\* records behind it stay queued, unchanged and in order.
C40_TxDrain ==
    [][TxDrainCall =>
         /\ SendsAreFrontRecords(QueuedRecords(tx), txout')
         /\ FailureStopsDrain(txout')
         /\ QueuedRecords(tx') =
               SubSeq(QueuedRecords(tx), Len(txout') + 1, Len(QueuedRecords(tx)))
         /\ TxWindow(tx') = Flat([k \in 1..Len(QueuedRecords(tx')) |->
                                   <<Len(QueuedRecords(tx')[k]) % 256,
                                     Len(QueuedRecords(tx')[k]) \div 256>>
                                   \o QueuedRecords(tx')[k]])
         /\ (\A k \in 1..Len(txout') : txout'[k].ok) =>
               /\ Len(txout') = Len(QueuedRecords(tx))
               /\ tx'.head = tx'.tail]_vars

\* a drain in which the second send was cut short has returned: the first two
\* records went to send, the record behind them is still queued
C40_Witness ==
    /\ drv.pc = "top"
    /\ Len(txout) = 2
    /\ txout[1].ok
    /\ ~txout[2].ok
    /\ Len(QueuedRecords(tx)) >= 1

\* a drain of three records or more, all accepted, has left the queue empty
DrainedAll ==
    /\ drv.pc = "top"
    /\ Len(txout) >= 3
    /\ \A k \in 1..Len(txout) : txout[k].ok
    /\ tx.head = tx.tail

====
